---- MODULE Spec2Model ----
(***************************************************************************)
(* State-synchronisation core of the jorik-cli terminal client            *)
(* (src/src/tui.rs): the shared App record behind one tokio Mutex, the    *)
(* stream client (spawn_websocket), the fire-and-forget tasks             *)
(* (async_fetch_queue, async_simple_command, async_play_track), the       *)
(* render loop's extrapolation step (App::update_realtime) and its key    *)
(* handler (run_loop).                                                     *)
(*                                                                         *)
(* Option<T> is modelled as a sequence of length 0 (None) or 1 (Some).    *)
(* Time is a monotonic clock `now` in milliseconds.                        *)
(***************************************************************************)
EXTENDS Integers, Sequences, FiniteSets, TLC

VARIABLES
    app,    \* the App record guarded by the Mutex
    now,    \* Instant::now(), in ms
    lock,   \* holder of the Mutex: Unlocked, HeldBy(task) or HeldByWs
    ws,     \* local state of the stream client task (spawn_websocket)
    tasks,  \* spawned one-shot tasks and the poll task: id -> record
    rl,     \* the render loop (run_loop): [pc]
    net,    \* the environment: transport health, remaining fault budget
    disk,   \* the config directory: auth.json and settings.json
    hist    \* history (ghost) record used only by the properties

vars == <<app, now, lock, ws, tasks, rl, net, disk, hist>>

-----------------------------------------------------------------------------
(* Option helpers *)

None == <<>>

Some(x) == <<x>>

IsSome(o) == o # <<>>

Unwrap(o) == o[1]

UnwrapOr(o, d) == IF o = <<>> THEN d ELSE o[1]

Min(a, b) == IF a < b THEN a ELSE b

Max(a, b) == IF a > b THEN a ELSE b

\* the values of the Mutex
Unlocked == <<>>

HeldBy(i) == <<"task", i>>

HeldByWs == <<"ws">>

-----------------------------------------------------------------------------
(* Program constants *)

LogCap == 100

NBars == 64

WsCooldownMs == 5000

WsIdleCheckMs == 500

WsWaitSleepMs == 1000

WsWaitLogMs == 10000

CmdDelayMs == 200

PlayDelayMs == 500

PollPeriodMs == 20000

\* Fixed-point denominator used for the f32 bar values (value * BarScale).
BarScale == 1000

-----------------------------------------------------------------------------
(* App::log: timestamped entry appended, oldest evicted past capacity.     *)

\* chrono::Local::now().format("%H:%M:%S"): the second of the day.
Timestamp(t) == (t \div 1000) % 86400

\* format!("[{}] {}", timestamp, msg)
LogEntry(t, msg) == <<Timestamp(t), msg>>

LogNoEvict(logs, t, msg) == Append(logs, LogEntry(t, msg))

Log(logs, t, msg) ==
    LET pushed == Append(logs, LogEntry(t, msg))
    IN  IF Len(pushed) > LogCap THEN Tail(pushed) ELSE pushed

AppLog(a, t, msg) == [a EXCEPT !.debug_logs = Log(a.debug_logs, t, msg)]

-----------------------------------------------------------------------------
(* JSON values as the handlers read them.  An object carries the fields   *)
(* the code looks up (absent or wrongly typed = None); an array carries   *)
(* its frames when it deserialises as Vec<Vec<u8>>.                        *)

JObj(gid_snake, gid_camel, current, upcoming, playback) ==
    [tag |-> "obj", guild_id |-> gid_snake, guildId |-> gid_camel,
     current |-> current, upcoming |-> upcoming, playback |-> playback]

JArr(frames) == [tag |-> "arr", frames |-> frames]

\* json.get(field) followed by the typed accessor
JGet(j, field) == IF j.tag = "obj" THEN j[field] ELSE None

\* format!("{} - {}", title, author) with the unwrap_or defaults
TrackLabel(item) ==
    UnwrapOr(item.title, "Unknown") \o " - " \o UnwrapOr(item.author, "")

RECURSIVE Labels(_)
Labels(items) ==
    IF items = <<>> THEN <<>>
    ELSE <<TrackLabel(Head(items))>> \o Labels(Tail(items))

-----------------------------------------------------------------------------
(* App::parse_queue_response *)

ParseGuild(a, t, j) ==
    LET snake == JGet(j, "guild_id")
        camel == JGet(j, "guildId")
        gid   == IF IsSome(snake) THEN snake ELSE camel
    IN  IF IsSome(gid)
        THEN LET logged == IF a.guild_id = None
                           THEN AppLog(a, t, "Discovered Guild ID: " \o Unwrap(gid))
                           ELSE a
             IN  [logged EXCEPT !.guild_id = gid]
        ELSE a

ParseQueueNoClear(a, t, j) ==
    LET g  == ParseGuild(a, t, j)
        cur == JGet(j, "current")
        up  == JGet(j, "upcoming")
    IN  [g EXCEPT
            !.current_track = IF IsSome(cur) THEN Some(TrackLabel(Unwrap(cur))) ELSE None,
            !.queue = g.queue \o (IF IsSome(up) THEN Labels(Unwrap(up)) ELSE <<>>)]

ParseQueueResponse(a, t, j) ==
    LET g  == ParseGuild(a, t, j)
        cur == JGet(j, "current")
        up  == JGet(j, "upcoming")
    IN  [g EXCEPT
            !.current_track = IF IsSome(cur) THEN Some(TrackLabel(Unwrap(cur))) ELSE None,
            !.queue = IF IsSome(up) THEN Labels(Unwrap(up)) ELSE <<>>]

-----------------------------------------------------------------------------
(* App::new *)

ZeroBars == [i \in 1..NBars |-> 0]

AppNew(base_url, offset, offset_text, token, guild_id, user_id, t) ==
    [base_url |-> base_url, token |-> token, guild_id |-> guild_id,
     user_id |-> user_id,
     queue |-> <<>>, current_track |-> None,
     error_message |-> None, fatal_error |-> None,
     loop_mode |-> "off", is_loading |-> FALSE,
     input |-> <<>>, input_mode |-> "Normal",
     view |-> IF IsSome(token) THEN "Main" ELSE "LoginRequired",
     menu_state |-> Some(0), filter_state |-> Some(0), auth_menu_state |-> Some(0),
     lyrics_text |-> None, lyrics_scroll |-> 0, auth_info_text |-> None,
     spectrogram |-> None, elapsed_ms |-> 0, duration_ms |-> 0, paused |-> TRUE,
     last_state_update |-> t,
     settings_input |-> base_url, offset_input |-> offset_text,
     settings_field |-> "Host", needs_reconnect |-> FALSE,
     visualizer_offset |-> offset,
     debug_logs |-> <<>>, ws_connected |-> FALSE, ws_connecting |-> FALSE,
     smoothed_bars |-> ZeroBars]

-----------------------------------------------------------------------------
(* App::update_realtime: position extrapolation, then bar smoothing.       *)

\* elapsed_ms.saturating_add_signed(visualizer_offset)
AdjustedMs(elapsed, offset) == Max(0, elapsed + offset)

\* a frame index rounded up instead of down
FrameIndexCeil(adjusted) == (adjusted * 100 + 4265) \div 4266

\* (adjusted_ms as f64 / 42.66).floor() as usize
FrameIndex(adjusted) == (adjusted * 100) \div 4266

\* a band smoothed towards a target that is not capped at 100
SmoothBandUncapped(i, byte, current) ==
    LET floor  == IF i < 3 THEN 60 ELSE 30
        raw    == Max(0, byte - floor)
        scaled == IF i = 0 THEN (raw * BarScale) \div 10
                           ELSE (raw * BarScale * 6) \div 10
    IN  IF scaled > current
        THEN current + ((scaled - current) * 40) \div 100
        ELSE current - ((current - scaled) * 15) \div 100

\* a band smoothed with the attack factor in both directions
SmoothBandSymmetric(i, byte, current) ==
    LET floor  == IF i < 3 THEN 60 ELSE 30
        raw    == Max(0, byte - floor)
        scaled == Min(100 * BarScale,
                      IF i = 0 THEN (raw * BarScale) \div 10
                               ELSE (raw * BarScale * 6) \div 10)
    IN  IF scaled > current
        THEN current + ((scaled - current) * 40) \div 100
        ELSE current - ((current - scaled) * 40) \div 100

\* one band of the smoothing loop; i is the 0-based band, values are
\* fixed-point (x BarScale)
SmoothBand(i, byte, current) ==
    LET floor  == IF i < 3 THEN 60 ELSE 30
        raw    == Max(0, byte - floor)
        scaled == Min(100 * BarScale,
                      IF i = 0 THEN (raw * BarScale) \div 10
                               ELSE (raw * BarScale * 6) \div 10)
    IN  IF scaled > current
        THEN current + ((scaled - current) * 40) \div 100
        ELSE current - ((current - scaled) * 15) \div 100

\* bars that take the width of the frame they are smoothed towards
SmoothBarsFrameWide(bars, frame) ==
    [k \in 1..Len(frame) |->
        SmoothBand(k - 1, frame[k], IF k <= NBars THEN bars[k] ELSE 0)]

SmoothBars(bars, frame) ==
    [k \in 1..NBars |->
        IF k <= Min(NBars, Len(frame))
        THEN SmoothBand(k - 1, frame[k], bars[k])
        ELSE bars[k]]

DecayBars(bars) == [k \in 1..NBars |-> (bars[k] * 95) \div 100]

\* an update whose idle branch fades the bars only when no spectrogram is
\* stored
UpdateRealtimeFadeUnlessSpectrogram(a, t) ==
    IF IsSome(a.current_track) /\ ~a.paused
    THEN a
    ELSE [a EXCEPT !.last_state_update = t,
                   !.smoothed_bars = IF IsSome(a.spectrogram) THEN @
                                      ELSE DecayBars(a.smoothed_bars)]

\* an update whose idle branch leaves the anchor where it was
UpdateRealtimeIdleKeepsAnchor(a, t) ==
    IF IsSome(a.current_track) /\ ~a.paused
    THEN LET delta   == t - a.last_state_update
             summed  == a.elapsed_ms + delta
             elapsed == IF a.duration_ms > 0 /\ summed > a.duration_ms
                        THEN a.duration_ms ELSE summed
         IN  [a EXCEPT !.elapsed_ms = elapsed, !.last_state_update = t]
    ELSE [a EXCEPT !.smoothed_bars = DecayBars(a.smoothed_bars)]

UpdateRealtime(a, t) ==
    IF IsSome(a.current_track) /\ ~a.paused
    THEN LET delta   == t - a.last_state_update
             summed  == a.elapsed_ms + delta
             elapsed == IF a.duration_ms > 0 /\ summed > a.duration_ms
                        THEN a.duration_ms ELSE summed
             idx     == FrameIndex(AdjustedMs(elapsed, a.visualizer_offset))
             bars    == IF IsSome(a.spectrogram) /\ idx < Len(Unwrap(a.spectrogram))
                        THEN SmoothBars(a.smoothed_bars, Unwrap(a.spectrogram)[idx + 1])
                        ELSE a.smoothed_bars
         IN  [a EXCEPT !.elapsed_ms = elapsed, !.last_state_update = t,
                       !.smoothed_bars = bars]
    ELSE [a EXCEPT !.last_state_update = t,
                   !.smoothed_bars = DecayBars(a.smoothed_bars)]

-----------------------------------------------------------------------------
(* Text the user edits a character at a time (base_url, settings_input)   *)
(* is a sequence of symbols; a scheme prefix is one symbol.                *)

Schemes == {"http://", "https://"}

\* Url::parse(&base_url).is_ok(): a scheme followed by a non-empty host
UrlParses(u) ==
    /\ Len(u) >= 2
    /\ u[1] \in Schemes
    /\ \A k \in 2..Len(u) : u[k] \notin Schemes

\* the ws(s)://host/ws?token=... address built from a parsed base_url
WsUrl(u, token) ==
    <<IF u[1] = "https://" THEN "wss://" ELSE "ws://">> \o Tail(u)
        \o <<"/ws?token=", token>>

\* api::build_url(base, path); the bases of this model carry no trailing '/'
BuildUrl(u, path) == u \o <<path>>

-----------------------------------------------------------------------------
(* spawn_websocket: the stream client.  ws.pc is the task's position.      *)

WsInit(t) ==
    [pc |-> "top", base_url |-> <<>>, token |-> None, guild_id |-> None,
     last_waiting_log |-> t, wake |-> t]

\* a loop top that goes on to connect without a guild id
WsLoopTopTokenOnly ==
    /\ ws.pc = "top"
    /\ lock = Unlocked
    /\ LET missing == app.token = None
           pc2 == IF missing
                  THEN IF now - ws.last_waiting_log > WsWaitLogMs
                       THEN "wait_log" ELSE "wait_sleep"
                  ELSE IF UrlParses(app.base_url) THEN "announce" ELSE "parse_err"
       IN  ws' = [ws EXCEPT !.pc = pc2, !.base_url = app.base_url,
                            !.token = app.token, !.guild_id = app.guild_id,
                            !.wake = IF pc2 = "wait_sleep"
                                     THEN now + WsWaitSleepMs ELSE ws.wake]
    /\ UNCHANGED <<app, now, lock, tasks, rl, net, hist, disk>>

\* tui.rs 743-763 and 765-773: snapshot under the lock, then choose the branch
WsLoopTop ==
    /\ ws.pc = "top"
    /\ lock = Unlocked
    /\ LET missing == app.token = None \/ app.guild_id = None
           pc2 == IF missing
                  THEN IF now - ws.last_waiting_log > WsWaitLogMs
                       THEN "wait_log" ELSE "wait_sleep"
                  ELSE IF UrlParses(app.base_url) THEN "announce" ELSE "parse_err"
       IN  ws' = [ws EXCEPT !.pc = pc2, !.base_url = app.base_url,
                            !.token = app.token, !.guild_id = app.guild_id,
                            !.wake = IF pc2 = "wait_sleep"
                                     THEN now + WsWaitSleepMs ELSE ws.wake]
    /\ UNCHANGED <<app, now, lock, tasks, rl, net, hist, disk>>

\* tui.rs 749-757
WsWaitLog ==
    /\ ws.pc = "wait_log"
    /\ lock = Unlocked
    /\ app' = IF ws.token = None
              THEN AppLog(app, now, "WS waiting for token...")
              ELSE IF ws.guild_id = None
                   THEN AppLog(app, now, "WS waiting for Guild ID (join a voice channel or specify --guild-id)...")
                   ELSE app
    /\ ws' = [ws EXCEPT !.pc = "wait_sleep", !.last_waiting_log = now,
                        !.wake = now + WsWaitSleepMs]
    /\ UNCHANGED <<now, lock, tasks, rl, net, hist, disk>>

\* tui.rs 758-759: sleep(1 s); continue
WsWaitSleepDone ==
    /\ ws.pc = "wait_sleep"
    /\ now >= ws.wake
    /\ ws' = [ws EXCEPT !.pc = "top"]
    /\ UNCHANGED <<app, now, lock, tasks, rl, net, hist, disk>>

\* tui.rs 774-777: the guard `app` is still alive when the sleep starts
WsParseErr ==
    /\ ws.pc = "parse_err"
    /\ lock = Unlocked
    /\ app' = AppLog(app, now, <<"WS URL Parse Error: ", ws.base_url>>)
    /\ lock' = HeldByWs
    /\ ws' = [ws EXCEPT !.pc = "parse_sleep", !.wake = now + WsCooldownMs]
    /\ UNCHANGED <<now, tasks, rl, net, hist, disk>>

\* tui.rs 777-778: the sleep ends, the guard drops, continue
WsParseErrWake ==
    /\ ws.pc = "parse_sleep"
    /\ now >= ws.wake
    /\ lock' = Unlocked
    /\ ws' = [ws EXCEPT !.pc = "top"]
    /\ UNCHANGED <<app, now, tasks, rl, net, hist, disk>>

\* tui.rs 782-789: announce, then start connect_async
WsAnnounce ==
    /\ ws.pc = "announce"
    /\ lock = Unlocked
    /\ app' = [AppLog(app, now, <<"WS Connecting to ">> \o WsUrl(ws.base_url, Unwrap(ws.token)))
                 EXCEPT !.ws_connected = FALSE, !.ws_connecting = TRUE]
    /\ ws' = [ws EXCEPT !.pc = "connecting"]
    /\ hist' = [hist EXCEPT !.prev_attempt = hist.attempt, !.attempt = Some(now)]
    /\ UNCHANGED <<now, lock, tasks, rl, net, disk>>

\* tui.rs 790-796: the handshake succeeded
\* a handshake whose success leaves ws_connecting set
WsConnectOkStillConnecting ==
    /\ ws.pc = "connecting"
    /\ lock = Unlocked
    /\ app' = [AppLog(app, now, "WS Connected") EXCEPT !.ws_connected = TRUE]
    /\ ws' = [ws EXCEPT !.pc = "subscribe"]
    /\ UNCHANGED <<now, lock, tasks, rl, net, hist, disk>>

WsConnectOk ==
    /\ ws.pc = "connecting"
    /\ lock = Unlocked
    /\ app' = [AppLog(app, now, "WS Connected")
                 EXCEPT !.ws_connected = TRUE, !.ws_connecting = FALSE]
    /\ ws' = [ws EXCEPT !.pc = "subscribe"]
    /\ UNCHANGED <<now, lock, tasks, rl, net, hist, disk>>

\* tui.rs 904-908: the handshake failed
WsConnectFail ==
    /\ ws.pc = "connecting"
    /\ lock = Unlocked
    /\ ~net.healthy
    /\ app' = [AppLog(app, now, "WS Connection Failed")
                 EXCEPT !.ws_connecting = FALSE]
    /\ ws' = [ws EXCEPT !.pc = "cleanup"]
    /\ UNCHANGED <<now, lock, tasks, rl, net, hist, disk>>

\* tui.rs 798-806: the subscribe request is sent (its result is dropped),
\* then the first select! arms its 500 ms sleep
WsSubscribe ==
    /\ ws.pc = "subscribe"
    /\ ws' = [ws EXCEPT !.pc = "recv", !.wake = now + WsIdleCheckMs]
    /\ hist' = [hist EXCEPT !.subscribed = Some(ws.guild_id)]
    /\ UNCHANGED <<app, now, lock, tasks, rl, net, disk>>

-----------------------------------------------------------------------------
(* Spawned tasks.  Slot 0 is the poll task of run(); slots 1..MaxTasks     *)
(* hold the tasks started with tokio::spawn.                               *)

MaxTasks == 2

\* longest text the user types, and the latest instant explored
MaxText == 3

MaxNow == 11000

\* furthest the lyrics view is scrolled
MaxScroll == 1

TaskIds == 0..MaxTasks

FreeTask ==
    [kind |-> "free", pc |-> "none", url |-> <<>>, token |-> None,
     result |-> None, cmd_result |-> None, wake |-> 0, on_login_screen |-> FALSE]

NewTask(kind, pc) == [FreeTask EXCEPT !.kind = kind, !.pc = pc]

HasFreeSlot(ts) == \E i \in 1..MaxTasks : ts[i].kind = "free"

FreeSlot(ts) == CHOOSE i \in 1..MaxTasks :
                    /\ ts[i].kind = "free"
                    /\ \A k \in 1..MaxTasks : ts[k].kind = "free" => i <= k

\* tokio::spawn(f(app_arc.clone()))
Spawn(ts, kind, pc) == [ts EXCEPT ![FreeSlot(ts)] = NewTask(kind, pc)]

-----------------------------------------------------------------------------
(* The event arms of spawn_websocket's receive loop (tui.rs 811-874)       *)

GuildFilterOff(a, e) == TRUE

GuildMatches(a, e) == e.guild_id = a.guild_id

\* a lookup that prefers the nested snapshot
EventPlaybackNestedFirst(e) ==
    IF IsSome(e.data) /\ IsSome(JGet(Unwrap(e.data), "playback"))
    THEN JGet(Unwrap(e.data), "playback")
    ELSE e.playback

\* tui.rs 829-833: top-level playback first, else data.playback
EventPlayback(e) ==
    IF IsSome(e.playback) THEN e.playback
    ELSE IF IsSome(e.data) THEN JGet(Unwrap(e.data), "playback") ELSE None

\* serde_json::from_value::<Vec<Vec<u8>>>(data).ok()
AsFrames(j) == IF j.tag = "arr" THEN j.frames ELSE None

SpectrogramArm(a, t, e) ==
    IF GuildMatches(a, e) /\ IsSome(e.data) /\ IsSome(AsFrames(Unwrap(e.data)))
    THEN LET frames == Unwrap(AsFrames(Unwrap(e.data)))
         IN  [AppLog(a, t, <<"Received Spectrogram (", Len(frames), " frames)">>)
                EXCEPT !.spectrogram = Some(frames)]
    ELSE a

StateArm(a, t, e) ==
    IF GuildMatches(a, e) /\ IsSome(EventPlayback(e))
    THEN LET pb == Unwrap(EventPlayback(e))
             l1 == IF pb.elapsed_ms % 5000 < 500
                   THEN AppLog(a, t, <<"State Update: elapsed=", pb.elapsed_ms,
                                       "ms, paused=", pb.paused>>)
                   ELSE a
             l2 == IF a.elapsed_ms = 0 /\ pb.elapsed_ms > 0
                   THEN AppLog(l1, t, <<"Synced playback to ", pb.elapsed_ms, "ms">>)
                   ELSE l1
             set == [l2 EXCEPT !.elapsed_ms = pb.elapsed_ms,
                               !.duration_ms = pb.duration_ms,
                               !.paused = pb.paused,
                               !.last_state_update = t]
         IN  IF IsSome(pb.spectrogram)
             THEN [AppLog(set, t, <<"Received Spectrogram in state (",
                                    Len(Unwrap(pb.spectrogram)), " frames)">>)
                     EXCEPT !.spectrogram = pb.spectrogram]
             ELSE set
    ELSE a

QueueArm(a, t, e) ==
    IF GuildMatches(a, e)
    THEN LET l == AppLog(a, t, "Received Queue Update")
         IN  IF IsSome(e.data) THEN ParseQueueResponse(l, t, Unwrap(e.data)) ELSE l
    ELSE a

NotifyArm(a, t, e) ==
    IF GuildMatches(a, e)
    THEN AppLog(a, t, "WS Event: " \o e.event_type \o ", refreshing queue")
    ELSE a

\* a handler that treats an unknown tag as a notification
HandleEventRefreshesUnknown(a, t, e) ==
    LET l == AppLog(a, t, "WS Event: " \o e.event_type)
    IN  CASE e.event_type = "spectrogram_update" -> SpectrogramArm(l, t, e)
          [] e.event_type \in {"state_update", "initial_state"} -> StateArm(l, t, e)
          [] e.event_type = "queue_update" -> QueueArm(l, t, e)
          [] OTHER -> NotifyArm(l, t, e)

HandleEvent(a, t, e) ==
    LET l == AppLog(a, t, "WS Event: " \o e.event_type)
    IN  CASE e.event_type = "spectrogram_update" -> SpectrogramArm(l, t, e)
          [] e.event_type \in {"state_update", "initial_state"} -> StateArm(l, t, e)
          [] e.event_type = "queue_update" -> QueueArm(l, t, e)
          [] e.event_type \in {"track_start", "track_end", "player_update"} ->
                NotifyArm(l, t, e)
          [] OTHER -> AppLog(l, t, "WS Unhandled Event: " \o e.event_type)

\* a handler that refetches after every queue_update
EventSpawnsFetchOnEveryQueueUpdate(a, e) ==
    /\ GuildMatches(a, e)
    /\ e.event_type \in {"queue_update", "track_start", "track_end", "player_update"}

\* the arms that call tokio::spawn(async_fetch_queue(..)) (tui.rs 860, 868)
EventSpawnsFetch(a, e) ==
    /\ GuildMatches(a, e)
    /\ \/ e.event_type = "queue_update" /\ e.data = None
       \/ e.event_type \in {"track_start", "track_end", "player_update"}

\* tui.rs 808-879: a text message that decodes as a WsEvent
WsRecvEvent(e) ==
    /\ ws.pc = "recv"
    /\ lock = Unlocked
    /\ net.msgs > 0
    /\ EventSpawnsFetch(app, e) => HasFreeSlot(tasks)
    /\ app' = HandleEvent(app, now, e)
    /\ tasks' = IF EventSpawnsFetch(app, e)
                THEN Spawn(tasks, "fetch", "fq_start") ELSE tasks
    /\ ws' = [ws EXCEPT !.wake = now + WsIdleCheckMs]
    /\ net' = [net EXCEPT !.msgs = net.msgs - 1]
    /\ UNCHANGED <<now, lock, rl, hist, disk>>

\* a client that hangs up on a text message that does not decode
WsRecvUnparsedCloses(text) ==
    /\ ws.pc = "recv"
    /\ lock = Unlocked
    /\ net.msgs > 0
    /\ app' = AppLog(app, now, "WS Unparsed Message: " \o text)
    /\ ws' = [ws EXCEPT !.pc = "cleanup"]
    /\ net' = [net EXCEPT !.msgs = net.msgs - 1]
    /\ UNCHANGED <<now, lock, tasks, rl, hist, disk>>

\* tui.rs 875-878: a text message that does not decode
WsRecvUnparsed(text) ==
    /\ ws.pc = "recv"
    /\ lock = Unlocked
    /\ net.msgs > 0
    /\ app' = AppLog(app, now, "WS Unparsed Message: " \o text)
    /\ ws' = [ws EXCEPT !.wake = now + WsIdleCheckMs]
    /\ net' = [net EXCEPT !.msgs = net.msgs - 1]
    /\ UNCHANGED <<now, lock, tasks, rl, hist, disk>>

\* tui.rs 890: binary, ping, pong and close frames are skipped
WsRecvOther ==
    /\ ws.pc = "recv"
    /\ net.msgs > 0
    /\ ws' = [ws EXCEPT !.wake = now + WsIdleCheckMs]
    /\ net' = [net EXCEPT !.msgs = net.msgs - 1]
    /\ UNCHANGED <<app, now, lock, tasks, rl, hist, disk>>

\* a transport error after which the client reconnects at once, without
\* the clean-up
WsRecvErrSkipsCleanup ==
    /\ ws.pc = "recv"
    /\ lock = Unlocked
    /\ ~net.healthy
    /\ app' = AppLog(app, now, "WS Error")
    /\ ws' = [ws EXCEPT !.pc = "announce"]
    /\ hist' = [hist EXCEPT !.ended = Some(now)]
    /\ UNCHANGED <<now, lock, tasks, rl, net, disk>>

\* tui.rs 880-884: transport error
WsRecvErr ==
    /\ ws.pc = "recv"
    /\ lock = Unlocked
    /\ ~net.healthy
    /\ app' = AppLog(app, now, "WS Error")
    /\ ws' = [ws EXCEPT !.pc = "cleanup"]
    /\ hist' = [hist EXCEPT !.ended = Some(now)]
    /\ UNCHANGED <<now, lock, tasks, rl, net, disk>>

\* tui.rs 885-889: the stream ended
WsRecvClosed ==
    /\ ws.pc = "recv"
    /\ lock = Unlocked
    /\ ~net.healthy
    /\ app' = AppLog(app, now, "WS Closed")
    /\ ws' = [ws EXCEPT !.pc = "cleanup"]
    /\ hist' = [hist EXCEPT !.ended = Some(now)]
    /\ UNCHANGED <<now, lock, tasks, rl, net, disk>>

\* tui.rs 893-900: the select!'s 500 ms sleep won; check needs_reconnect
WsIdleCheck ==
    /\ ws.pc = "recv"
    /\ lock = Unlocked
    /\ now >= ws.wake
    /\ IF app.needs_reconnect
       THEN /\ app' = [AppLog(app, now, "WS Forcing reconnect due to settings change")
                         EXCEPT !.needs_reconnect = FALSE]
            /\ ws' = [ws EXCEPT !.pc = "cleanup"]
       ELSE /\ ws' = [ws EXCEPT !.wake = now + WsIdleCheckMs]
            /\ app' = app
    /\ UNCHANGED <<now, lock, tasks, rl, net, hist, disk>>

\* a client that gives up after the first failure instead of looping
WsCleanupExits ==
    /\ ws.pc = "cleanup"
    /\ lock = Unlocked
    /\ app' = [app EXCEPT !.ws_connected = FALSE, !.ws_connecting = FALSE]
    /\ ws' = [ws EXCEPT !.pc = "exited"]
    /\ UNCHANGED <<now, lock, tasks, rl, net, hist, disk>>

\* tui.rs 911-916: clear the flags, then the 5 s cool-down starts
WsCleanup ==
    /\ ws.pc = "cleanup"
    /\ lock = Unlocked
    /\ app' = [app EXCEPT !.ws_connected = FALSE, !.ws_connecting = FALSE]
    /\ ws' = [ws EXCEPT !.pc = "cooldown", !.wake = now + WsCooldownMs]
    /\ UNCHANGED <<now, lock, tasks, rl, net, hist, disk>>

\* a loop that does not wait for the cool-down sleep
WsCooldownSkipped ==
    /\ ws.pc = "cooldown"
    /\ ws' = [ws EXCEPT !.pc = "top"]
    /\ UNCHANGED <<app, now, lock, tasks, rl, net, hist, disk>>

\* tui.rs 916-917: the cool-down sleep ends, loop
WsCooldownDone ==
    /\ ws.pc = "cooldown"
    /\ now >= ws.wake
    /\ ws' = [ws EXCEPT !.pc = "top"]
    /\ UNCHANGED <<app, now, lock, tasks, rl, net, hist, disk>>

-----------------------------------------------------------------------------
(* async_fetch_queue (tui.rs 301-357), run by a spawned task or inline by  *)
(* the poll task and the dispatchers.  Task pcs:                           *)
(*   fq_start  before the first lock                                       *)
(*   fq_send   req.send().await in flight, lock released                   *)
(*   fq_lock   response in hand, waiting for the second lock               *)
(*   fq_body   resp.json().await in flight  (guard `app` alive)            *)
(*   fq_text   resp.text().await in flight  (guard `app` alive)            *)

\* tui.rs 302-314
FetchStart(i) ==
    /\ tasks[i].pc = "fq_start"
    /\ lock = Unlocked
    /\ app' = [app EXCEPT !.is_loading = TRUE]
    /\ tasks' = [tasks EXCEPT ![i].pc = "fq_send",
                              ![i].url = BuildUrl(app.base_url, "/webhook/audio"),
                              ![i].token = app.token]
    /\ UNCHANGED <<now, lock, ws, rl, net, hist, disk>>

\* tui.rs 321: the request completes with a response head or a transport error
FetchSent(i, r) ==
    /\ tasks[i].pc = "fq_send"
    /\ r.kind = "err" => ~net.healthy
    /\ tasks' = [tasks EXCEPT ![i].pc = "fq_lock", ![i].result = Some(r)]
    /\ UNCHANGED <<app, now, lock, ws, rl, net, hist, disk>>

\* what a task does when the function it runs returns
TaskReturn(task, t) ==
    IF task.kind = "poll"
    THEN [FreeTask EXCEPT !.kind = "poll", !.pc = "poll_wait",
                          !.wake = task.wake]
    ELSE IF task.kind = "login" /\ task.pc \in {"fq_lock", "fq_body", "fq_text"}
    THEN [task EXCEPT !.pc = "al_view", !.result = None]
    ELSE FreeTask

\* a fetch that, on a transport error, starts over with its guard alive
FetchLockRetriesUnderLock(i) ==
    /\ tasks[i].pc = "fq_lock"
    /\ lock = Unlocked
    /\ LET r == Unwrap(tasks[i].result)
       IN  IF r.kind = "err"
           THEN /\ app' = [app EXCEPT !.is_loading = FALSE,
                              !.error_message = Some("Network error: " \o r.text)]
                /\ tasks' = [tasks EXCEPT ![i].pc = "fq_start"]
                /\ lock' = HeldBy(i)
           ELSE /\ app' = [app EXCEPT !.is_loading = FALSE]
                /\ tasks' = [tasks EXCEPT ![i].pc =
                                IF r.success THEN "fq_body" ELSE "fq_text"]
                /\ lock' = HeldBy(i)
    /\ UNCHANGED <<now, ws, rl, net, hist, disk>>

\* tui.rs 323-325 and 353-355: second lock; a transport error is committed
\* at once, a response goes on to read its body with the guard alive
FetchLock(i) ==
    /\ tasks[i].pc = "fq_lock"
    /\ lock = Unlocked
    /\ LET r == Unwrap(tasks[i].result)
       IN  IF r.kind = "err"
           THEN /\ app' = [app EXCEPT !.is_loading = FALSE,
                              !.error_message = Some("Network error: " \o r.text)]
                /\ tasks' = [tasks EXCEPT ![i] = TaskReturn(tasks[i], now)]
                /\ lock' = lock
           ELSE /\ app' = [app EXCEPT !.is_loading = FALSE]
                /\ tasks' = [tasks EXCEPT ![i].pc =
                                IF r.success THEN "fq_body" ELSE "fq_text"]
                /\ lock' = HeldBy(i)
    /\ UNCHANGED <<now, ws, rl, net, hist, disk>>

\* a commit of a success response that also dismisses the fatal error
FetchBodyClearsFatal(i) ==
    /\ tasks[i].pc = "fq_body"
    /\ lock = HeldBy(i)
    /\ LET r == Unwrap(tasks[i].result)
       IN  app' = IF IsSome(r.json)
                  THEN [ParseQueueResponse(app, now, Unwrap(r.json))
                          EXCEPT !.error_message = None, !.fatal_error = None]
                  ELSE app
    /\ tasks' = [tasks EXCEPT ![i] = TaskReturn(tasks[i], now)]
    /\ lock' = Unlocked
    /\ UNCHANGED <<now, ws, rl, net, hist, disk>>

\* a commit that empties the session when the body does not decode
FetchBodyClearsOnGarbage(i) ==
    /\ tasks[i].pc = "fq_body"
    /\ lock = HeldBy(i)
    /\ LET r == Unwrap(tasks[i].result)
       IN  app' = IF IsSome(r.json)
                  THEN [ParseQueueResponse(app, now, Unwrap(r.json))
                          EXCEPT !.error_message = None]
                  ELSE [app EXCEPT !.current_track = None, !.queue = <<>>]
    /\ tasks' = [tasks EXCEPT ![i] = TaskReturn(tasks[i], now)]
    /\ lock' = Unlocked
    /\ UNCHANGED <<now, ws, rl, net, hist, disk>>

\* tui.rs 328-331: the body of a success response has been read
FetchBody(i) ==
    /\ tasks[i].pc = "fq_body"
    /\ lock = HeldBy(i)
    /\ LET r == Unwrap(tasks[i].result)
       IN  app' = IF IsSome(r.json)
                  THEN [ParseQueueResponse(app, now, Unwrap(r.json))
                          EXCEPT !.error_message = None]
                  ELSE app
    /\ tasks' = [tasks EXCEPT ![i] = TaskReturn(tasks[i], now)]
    /\ lock' = Unlocked
    /\ UNCHANGED <<now, ws, rl, net, hist, disk>>

FatalText == "User not in voice channel or guild unknown.\n\nPress 'r' to reload."

\* tui.rs 333-350: the body of a non-success response has been read
FetchText(i) ==
    /\ tasks[i].pc = "fq_text"
    /\ lock = HeldBy(i)
    /\ LET r == Unwrap(tasks[i].result)
           handled == /\ r.error = Some("bad_request")
                      /\ r.message = Some("user_not_in_voice_channel_or_guild_unknown")
       IN  /\ app' = IF handled
                  THEN [app EXCEPT !.fatal_error = Some(FatalText)]
                  ELSE IF r.guild_required
                       THEN [app EXCEPT !.error_message =
                               Some("Not connected to a voice channel or Guild ID missing.")]
                       ELSE [app EXCEPT !.error_message = Some("Error: " \o r.text)]
           /\ hist' = IF handled THEN [hist EXCEPT !.fatal_at = Some(now)] ELSE hist
    /\ tasks' = [tasks EXCEPT ![i] = TaskReturn(tasks[i], now)]
    /\ lock' = Unlocked
    /\ UNCHANGED <<now, ws, rl, net, disk>>

-----------------------------------------------------------------------------
(* async_simple_command (tui.rs 442-458) and async_play_track (359-384):  *)
(*   cmd_start  before the lock                                            *)
(*   cmd_send   the command's req.send().await in flight                   *)
(*   cmd_sleep  the fixed delay before the refresh                         *)

\* tui.rs 443-448 / 360-374
CmdStart(i) ==
    /\ tasks[i].pc = "cmd_start"
    /\ lock = Unlocked
    /\ app' = [app EXCEPT !.is_loading = TRUE]
    /\ tasks' = [tasks EXCEPT ![i].pc = "cmd_send",
                              ![i].url = BuildUrl(app.base_url, "/webhook/audio"),
                              ![i].token = app.token]
    /\ UNCHANGED <<now, lock, ws, rl, net, hist, disk>>

\* tui.rs 455-456 / 381-382: `let _ = req.send().await;` then the sleep starts
CmdSent(i, r) ==
    /\ tasks[i].pc = "cmd_send"
    /\ r.kind = "err" => ~net.healthy
    /\ tasks' = [tasks EXCEPT ![i].pc = "cmd_sleep",
                    ![i].cmd_result = Some(r.kind),
                    ![i].wake = now + (IF tasks[i].kind = "play"
                                       THEN PlayDelayMs ELSE CmdDelayMs)]
    /\ UNCHANGED <<app, now, lock, ws, rl, net, hist, disk>>

\* a command that starts its refresh without awaiting the delay
CmdDelayNotAwaited(i) ==
    /\ tasks[i].pc = "cmd_sleep"
    /\ tasks' = [tasks EXCEPT ![i].pc = "fq_start"]
    /\ UNCHANGED <<app, now, lock, ws, rl, net, hist, disk>>

\* tui.rs 456-457 / 382-383: the delay is over, async_fetch_queue starts
CmdDelayDone(i) ==
    /\ tasks[i].pc = "cmd_sleep"
    /\ now >= tasks[i].wake
    /\ tasks' = [tasks EXCEPT ![i].pc = "fq_start"]
    /\ UNCHANGED <<app, now, lock, ws, rl, net, hist, disk>>

-----------------------------------------------------------------------------
(* async_fetch_lyrics (tui.rs 386-440):                                    *)
(*   ly_start, ly_send, ly_lock as for the queue fetch;                    *)
(*   ly_body   resp.json().await in flight (guard `app` alive)             *)

\* tui.rs 387-397
LyricsStart(i) ==
    /\ tasks[i].pc = "ly_start"
    /\ lock = Unlocked
    /\ app' = [app EXCEPT !.is_loading = TRUE]
    /\ tasks' = [tasks EXCEPT ![i].pc = "ly_send",
                              ![i].url = BuildUrl(app.base_url, "/webhook/audio"),
                              ![i].token = app.token]
    /\ UNCHANGED <<now, lock, ws, rl, net, hist, disk>>

\* tui.rs 404
LyricsSent(i, r) ==
    /\ tasks[i].pc = "ly_send"
    /\ r.kind = "err" => ~net.healthy
    /\ tasks' = [tasks EXCEPT ![i].pc = "ly_lock", ![i].result = Some(r)]
    /\ UNCHANGED <<app, now, lock, ws, rl, net, hist, disk>>

\* tui.rs 406-411 and 436-438
LyricsLock(i) ==
    /\ tasks[i].pc = "ly_lock"
    /\ lock = Unlocked
    /\ LET r == Unwrap(tasks[i].result)
           shown == [app EXCEPT !.view = "Lyrics", !.lyrics_scroll = 0,
                                !.is_loading = FALSE]
       IN  IF r.kind = "err"
           THEN /\ app' = [shown EXCEPT !.lyrics_text =
                              Some("Failed to fetch lyrics: " \o r.text)]
                /\ tasks' = [tasks EXCEPT ![i] = TaskReturn(tasks[i], now)]
                /\ lock' = lock
           ELSE /\ app' = shown
                /\ tasks' = [tasks EXCEPT ![i].pc = "ly_body"]
                /\ lock' = HeldBy(i)
    /\ UNCHANGED <<now, ws, rl, net, hist, disk>>

\* tui.rs 413-434: r.lyrics is None when the body is not JSON, else
\* Some(output) with output the text gathered from data.text / data.lines
\* (None when there is no data object)
LyricsBody(i) ==
    /\ tasks[i].pc = "ly_body"
    /\ lock = HeldBy(i)
    /\ LET r == Unwrap(tasks[i].result)
       IN  app' = [app EXCEPT !.lyrics_text =
                      IF r.lyrics = None THEN Some("Failed to parse lyrics.")
                      ELSE IF Unwrap(r.lyrics) \in {None, Some(""), Some(" ")}
                           THEN Some("No lyrics found.")
                           ELSE Unwrap(r.lyrics)]
    /\ tasks' = [tasks EXCEPT ![i] = TaskReturn(tasks[i], now)]
    /\ lock' = Unlocked
    /\ UNCHANGED <<now, ws, rl, net, hist, disk>>

-----------------------------------------------------------------------------
(* The OAuth callback catcher.  A callback request is what the accepted    *)
(* connection sends: whether its path parses after "http://localhost", and *)
(* its token and username query parameters.                                *)

LoginTimeoutMs == 120000
LoginSettleMs == 500

Callback(path_ok, token, username) ==
    [kind |-> "callback", path_ok |-> path_ok, token |-> token,
     username |-> username]

RECURSIVE TrimStart(_)
TrimStart(s) == IF s # <<>> /\ Head(s) = " " THEN TrimStart(Tail(s)) ELSE s

RECURSIVE TrimEnd(_)
TrimEnd(s) ==
    IF s # <<>> /\ s[Len(s)] = " " THEN TrimEnd(SubSeq(s, 1, Len(s) - 1)) ELSE s

\* str::trim
Trim(s) == TrimEnd(TrimStart(s))

\* parsed.query_pairs().find(|(k, _)| k == "token") behind `if let Ok(parsed)`
TokenPair(req) == IF req.path_ok THEN req.token ELSE None

\* api::save_token (api.rs 246-261): the Auth record written to auth.json
SavedAuth(token, username) ==
    [token |-> Trim(token), avatar_url |-> None, username |-> username]

Reply(status, body) == [status |-> status, body |-> body]

-----------------------------------------------------------------------------
(* async_auth_login (tui.rs 467-709).  Positions of the task:              *)
(*   al_start     before the first lock                                    *)
(*   al_bind      TcpListener::bind in flight                              *)
(*   al_open      listener bound, before the lock of tui.rs 520            *)
(*   al_accept    timeout(120 s, listener.accept()) pending                *)
(*   al_read      connection accepted, stream.read in flight               *)
(*   al_request   request read                                             *)
(*   al_no_token, al_empty_token   400 written, before the lock            *)
(*   al_save_failed                save_token failed, before the lock      *)
(*   al_saved     token saved and 200 written, before the lock             *)
(*   al_settle    sleep(500 ms) pending; then async_fetch_queue (fq_..)    *)
(*   al_view      refresh returned, before the last lock                   *)
(* The listener is a local of the function: it is bound from al_open on    *)
(* and released when the task returns.                                     *)

ListenerPcs ==
    {"al_open", "al_accept", "al_read", "al_request", "al_no_token", "al_empty_token",
     "al_save_failed", "al_saved", "al_settle", "al_view",
     "fq_start", "fq_send", "fq_lock", "fq_body", "fq_text"}

\* tui.rs 468-483
AuthLoginStart(i) ==
    /\ tasks[i].pc = "al_start"
    /\ lock = Unlocked
    /\ app' = [app EXCEPT !.is_loading = TRUE,
                          !.auth_info_text = Some("Initializing login..."),
                          !.view = IF app.view = "LoginRequired" THEN @
                                   ELSE "AuthResult"]
    /\ tasks' = [tasks EXCEPT ![i].pc = "al_bind",
                              ![i].url = BuildUrl(app.base_url, "/authorize"),
                              ![i].on_login_screen = (app.view = "LoginRequired")]
    /\ UNCHANGED <<now, lock, ws, rl, net, hist, disk>>

\* the early returns: is_loading cleared, the message stored
AuthLoginFail(a, msg) ==
    [a EXCEPT !.is_loading = FALSE, !.auth_info_text = Some(msg)]

\* tui.rs 485-516: bind, local_addr and the parse of the authorize URL
AuthLoginBind(i, o) ==
    /\ tasks[i].pc = "al_bind"
    /\ IF o = "ok" /\ UrlParses(tasks[i].url)
       THEN /\ tasks' = [tasks EXCEPT ![i].pc = "al_open"]
            /\ app' = app
       ELSE /\ lock = Unlocked
            /\ app' = AuthLoginFail(app,
                        CASE o = "bind_err" -> "Failed to bind listener: error"
                          [] o = "addr_err" -> "Failed to get local addr: error"
                          [] OTHER -> "Invalid base URL: error")
            /\ tasks' = [tasks EXCEPT ![i] = TaskReturn(tasks[i], now)]
    /\ UNCHANGED <<now, lock, ws, rl, net, hist, disk>>

\* tui.rs 518-527: the message with the link, the browser, the timeout armed
AuthLoginOpen(i) ==
    /\ tasks[i].pc = "al_open"
    /\ lock = Unlocked
    /\ app' = [app EXCEPT !.auth_info_text =
                  Some(<<"Opening browser...">> \o tasks[i].url)]
    /\ tasks' = [tasks EXCEPT ![i].pc = "al_accept",
                              ![i].wake = now + LoginTimeoutMs]
    /\ UNCHANGED <<now, lock, ws, rl, net, hist, disk>>

\* tui.rs 527-528: a connection reaches the listener and is accepted
AuthLoginAccept(i) ==
    /\ tasks[i].pc = "al_accept"
    /\ tasks' = [tasks EXCEPT ![i].pc = "al_read"]
    /\ UNCHANGED <<app, now, lock, ws, rl, net, hist, disk>>

\* tui.rs 529-542: the request is read
AuthLoginRead(i, req) ==
    /\ tasks[i].pc = "al_read"
    /\ tasks' = [tasks EXCEPT ![i].pc = "al_request", ![i].result = Some(req)]
    /\ UNCHANGED <<app, now, lock, ws, rl, net, hist, disk>>

\* tui.rs 530-538: the read of the accepted connection fails
AuthLoginReadErr(i) ==
    /\ tasks[i].pc = "al_read"
    /\ lock = Unlocked
    /\ app' = AuthLoginFail(app, "Error reading callback: error")
    /\ tasks' = [tasks EXCEPT ![i] = TaskReturn(tasks[i], now)]
    /\ UNCHANGED <<now, lock, ws, rl, net, hist, disk>>

\* a login that arms the timeout again when it elapses
AuthLoginTimeoutRetries(i) ==
    /\ tasks[i].pc = "al_accept"
    /\ now >= tasks[i].wake
    /\ lock = Unlocked
    /\ app' = AuthLoginFail(app, "Login timed out.")
    /\ tasks' = [tasks EXCEPT ![i].pc = "al_open"]
    /\ UNCHANGED <<now, lock, ws, rl, net, hist, disk>>

\* tui.rs 527 and 703-707: the 120 s elapse with no connection
AuthLoginTimeout(i) ==
    /\ tasks[i].pc = "al_accept"
    /\ now >= tasks[i].wake
    /\ lock = Unlocked
    /\ app' = AuthLoginFail(app, "Login timed out.")
    /\ tasks' = [tasks EXCEPT ![i] = TaskReturn(tasks[i], now)]
    /\ UNCHANGED <<now, lock, ws, rl, net, hist, disk>>

\* tui.rs 527 and 703-707: accept() itself fails; the same arm
AuthLoginAcceptErr(i) ==
    /\ tasks[i].pc = "al_accept"
    /\ lock = Unlocked
    /\ app' = AuthLoginFail(app, "Login timed out.")
    /\ tasks' = [tasks EXCEPT ![i] = TaskReturn(tasks[i], now)]
    /\ UNCHANGED <<now, lock, ws, rl, net, hist, disk>>

\* tui.rs 540-669 and 689-696: the request is parsed; fs is what the file
\* system does to save_token
AuthLoginRequest(i, fs) ==
    /\ tasks[i].pc = "al_request"
    /\ LET req == Unwrap(tasks[i].result)
           pair == TokenPair(req)
       IN  CASE ~req.path_ok ->
                  \* `if let Ok(parsed)` has no else: the function returns
                  /\ tasks' = [tasks EXCEPT ![i] = TaskReturn(tasks[i], now)]
                  /\ UNCHANGED <<hist, disk>>
             [] req.path_ok /\ pair = None ->
                  /\ hist' = [hist EXCEPT !.reply = Some(Reply(400, "No token in callback"))]
                  /\ tasks' = [tasks EXCEPT ![i].pc = "al_no_token"]
                  /\ disk' = disk
             [] req.path_ok /\ pair # None /\ Trim(Unwrap(pair)) = <<>> ->
                  /\ hist' = [hist EXCEPT !.reply = Some(Reply(400, "Missing token"))]
                  /\ tasks' = [tasks EXCEPT ![i].pc = "al_empty_token"]
                  /\ disk' = disk
             [] OTHER ->
                  IF fs = "ok"
                  THEN /\ disk' = [disk EXCEPT !.auth =
                                      Some(SavedAuth(Unwrap(pair), req.username))]
                       /\ hist' = [hist EXCEPT !.reply = Some(Reply(200, "Authorization complete"))]
                       /\ tasks' = [tasks EXCEPT ![i].pc = "al_saved"]
                  ELSE /\ tasks' = [tasks EXCEPT ![i].pc = "al_save_failed"]
                       /\ UNCHANGED <<hist, disk>>
    /\ UNCHANGED <<app, now, lock, ws, rl, net>>

\* tui.rs 551-554, 562-565 and 697-699: the failure is reported
AuthLoginReport(i) ==
    /\ tasks[i].pc \in {"al_no_token", "al_empty_token", "al_save_failed"}
    /\ lock = Unlocked
    /\ app' = AuthLoginFail(app,
                CASE tasks[i].pc = "al_no_token" ->
                        "Login failed: Missing token in callback."
                  [] tasks[i].pc = "al_empty_token" -> "No token provided in callback."
                  [] OTHER -> "Failed to save token: error")
    /\ tasks' = [tasks EXCEPT ![i] = TaskReturn(tasks[i], now)]
    /\ UNCHANGED <<now, lock, ws, rl, net, hist, disk>>

\* tui.rs 671-679: the session takes the token; the settle delay starts
AuthLoginCommit(i) ==
    /\ tasks[i].pc = "al_saved"
    /\ lock = Unlocked
    /\ LET req == Unwrap(tasks[i].result)
       IN  app' = [app EXCEPT !.is_loading = FALSE,
                              !.token = Some(Trim(Unwrap(req.token))),
                              !.auth_info_text =
                                  Some(<<"Login Successful!", UnwrapOr(req.username, "")>>)]
    /\ tasks' = [tasks EXCEPT ![i].pc = "al_settle", ![i].wake = now + LoginSettleMs]
    /\ UNCHANGED <<now, lock, ws, rl, net, hist, disk>>

\* tui.rs 679-682: the delay is over, async_fetch_queue starts
AuthLoginSettled(i) ==
    /\ tasks[i].pc = "al_settle"
    /\ now >= tasks[i].wake
    /\ tasks' = [tasks EXCEPT ![i].pc = "fq_start"]
    /\ UNCHANGED <<app, now, lock, ws, rl, net, hist, disk>>

\* tui.rs 684-688
AuthLoginView(i) ==
    /\ tasks[i].pc = "al_view"
    /\ lock = Unlocked
    /\ app' = [app EXCEPT !.view = IF tasks[i].on_login_screen THEN "Main" ELSE @]
    /\ tasks' = [tasks EXCEPT ![i] = FreeTask]
    /\ UNCHANGED <<now, lock, ws, rl, net, hist, disk>>

-----------------------------------------------------------------------------
(* async_auth_signout (tui.rs 711-737)                                     *)

\* tui.rs 712-718
SignoutStart(i) ==
    /\ tasks[i].pc = "so_start"
    /\ lock = Unlocked
    /\ app' = [app EXCEPT !.is_loading = TRUE, !.view = "AuthResult",
                          !.auth_info_text = Some("Signing out...")]
    /\ tasks' = [tasks EXCEPT ![i].pc = IF IsSome(app.token) THEN "so_send"
                                        ELSE "so_remove",
                              ![i].url = BuildUrl(app.base_url, "/webhook/auth/revoke"),
                              ![i].token = app.token]
    /\ UNCHANGED <<now, lock, ws, rl, net, hist, disk>>

\* tui.rs 720-723: the revoke request ends; its result is dropped
SignoutSent(i) ==
    /\ tasks[i].pc = "so_send"
    /\ tasks' = [tasks EXCEPT ![i].pc = "so_remove"]
    /\ UNCHANGED <<app, now, lock, ws, rl, net, hist, disk>>

\* tui.rs 725-736: the auth file is removed, the session loses its token
SignoutFinish(i) ==
    /\ tasks[i].pc = "so_remove"
    /\ lock = Unlocked
    /\ disk' = [disk EXCEPT !.auth = None]
    /\ app' = [app EXCEPT !.is_loading = FALSE, !.token = None,
                          !.auth_info_text = None, !.view = "LoginRequired"]
    /\ tasks' = [tasks EXCEPT ![i] = TaskReturn(tasks[i], now)]
    /\ UNCHANGED <<now, lock, ws, rl, net, hist>>

-----------------------------------------------------------------------------
(* login of the command line (main.rs 964-1142): one process, no App.      *)
(*   cl_bind     before the listener is bound                              *)
(*   cl_accept   timeout(120 s, listener.accept()) pending                 *)
(*   cl_read     connection accepted, stream.read in flight                *)
(*   cl_request  request read                                              *)
(* hist.cli_exit is the Result the function returned.                      *)

CliExit(i, res) ==
    /\ tasks' = [tasks EXCEPT ![i] = FreeTask]
    /\ hist' = [hist EXCEPT !.cli_exit = Some(res)]

\* main.rs 968-989
CliLoginBind(i, o) ==
    /\ tasks[i].pc = "cl_bind"
    /\ IF o = "ok" /\ UrlParses(tasks[i].url)
       THEN /\ tasks' = [tasks EXCEPT ![i].pc = "cl_accept",
                                      ![i].wake = now + LoginTimeoutMs]
            /\ hist' = hist
       ELSE CliExit(i, "err")
    /\ UNCHANGED <<app, now, lock, ws, rl, net, disk>>

\* main.rs 992-993
CliLoginAccept(i) ==
    /\ tasks[i].pc = "cl_accept"
    /\ tasks' = [tasks EXCEPT ![i].pc = "cl_read"]
    /\ UNCHANGED <<app, now, lock, ws, rl, net, hist, disk>>

\* main.rs 994-1001
CliLoginRead(i, req) ==
    /\ tasks[i].pc = "cl_read"
    /\ tasks' = [tasks EXCEPT ![i].pc = "cl_request", ![i].result = Some(req)]
    /\ UNCHANGED <<app, now, lock, ws, rl, net, hist, disk>>

\* main.rs 996-998: `stream.read(&mut buf).await?`
CliLoginReadErr(i) ==
    /\ tasks[i].pc = "cl_read"
    /\ CliExit(i, "err")
    /\ UNCHANGED <<app, now, lock, ws, rl, net, disk>>

\* main.rs 992 and 1136-1140: the 120 s elapse with no connection
CliLoginTimeout(i) ==
    /\ tasks[i].pc = "cl_accept"
    /\ now >= tasks[i].wake
    /\ CliExit(i, "err")
    /\ UNCHANGED <<app, now, lock, ws, rl, net, disk>>

\* main.rs 992 and 1136-1140: accept() itself fails
CliLoginAcceptErr(i) ==
    /\ tasks[i].pc = "cl_accept"
    /\ CliExit(i, "err")
    /\ UNCHANGED <<app, now, lock, ws, rl, net, disk>>

\* main.rs 1002-1134
CliLoginRequest(i, fs) ==
    /\ tasks[i].pc = "cl_request"
    /\ LET req == Unwrap(tasks[i].result)
           pair == TokenPair(req)
       IN  CASE pair = None ->
                  \* main.rs 1125-1134: 400, and the function returns Ok(())
                  /\ hist' = [hist EXCEPT !.cli_reply = Some(Reply(400, "No token in callback")),
                                          !.cli_exit = Some("ok")]
                  /\ disk' = disk
             [] pair # None /\ Trim(Unwrap(pair)) = <<>> ->
                  /\ hist' = [hist EXCEPT !.cli_reply = Some(Reply(400, "Missing token")),
                                          !.cli_exit = Some("err")]
                  /\ disk' = disk
             [] OTHER ->
                  IF fs = "ok"
                  THEN /\ disk' = [disk EXCEPT !.auth =
                                      Some(SavedAuth(Unwrap(pair), req.username))]
                       /\ hist' = [hist EXCEPT !.cli_reply = Some(Reply(200, "Authorization complete")),
                                               !.cli_exit = Some("ok")]
                  ELSE /\ hist' = [hist EXCEPT !.cli_exit = Some("err")]
                       /\ disk' = disk
    /\ tasks' = [tasks EXCEPT ![i] = FreeTask]
    /\ UNCHANGED <<app, now, lock, ws, rl, net>>

-----------------------------------------------------------------------------
(* The poll task of run() (tui.rs 937-945)                                 *)

\* a poll task that skips the fetch while the stream is connected
PollTickUnlessConnected ==
    /\ tasks[0].pc = "poll_wait"
    /\ now >= tasks[0].wake
    /\ tasks' = [tasks EXCEPT ![0].pc = IF app.ws_connected THEN "poll_wait"
                                        ELSE "fq_start",
                              ![0].wake = tasks[0].wake + PollPeriodMs]
    /\ UNCHANGED <<app, now, lock, ws, rl, net, hist, disk>>

\* interval.tick().await returns; the next tick is one period later
PollTick ==
    /\ tasks[0].pc = "poll_wait"
    /\ now >= tasks[0].wake
    /\ tasks' = [tasks EXCEPT ![0].pc = "fq_start",
                              ![0].wake = tasks[0].wake + PollPeriodMs]
    /\ UNCHANGED <<app, now, lock, ws, rl, net, hist, disk>>

-----------------------------------------------------------------------------
(* Keys.  A key is [code, c, ctrl]; code "Char" carries the character c.   *)
(* The Cyrillic alternates of the bindings are written "cyr-..".           *)

Key(code) == [code |-> code, c |-> "", ctrl |-> FALSE]

CharKey(c) == [code |-> "Char", c |-> c, ctrl |-> FALSE]

CtrlKey(c) == [code |-> "Char", c |-> c, ctrl |-> TRUE]

IsCharIn(k, cs) == k.code = "Char" /\ k.c \in cs

IsDown(k) == k.code = "Down" \/ IsCharIn(k, {"j", "cyr-o"})

IsUp(k) == k.code = "Up" \/ IsCharIn(k, {"k", "cyr-el"})

IsQuit(k) == IsCharIn(k, {"q", "cyr-short-i"})

IsReload(k) == IsCharIn(k, {"r", "cyr-ka"})

Digits == <<"0", "1", "2", "3", "4", "5", "6", "7", "8", "9">>

IsDigit(c) == \E d \in 1..10 : Digits[d] = c

DigitValue(c) == (CHOOSE d \in 1..10 : Digits[d] = c) - 1

RECURSIVE ParseDigits(_, _)
ParseDigits(text, acc) ==
    IF text = <<>> THEN acc
    ELSE ParseDigits(Tail(text), acc * 10 + DigitValue(Head(text)))

\* text.parse::<i64>(): an optional sign, then one or more digits
ParseI64(text) ==
    LET body == IF text # <<>> /\ Head(text) \in {"-", "+"} THEN Tail(text) ELSE text
    IN  IF body = <<>> \/ \E k \in 1..Len(body) : ~IsDigit(body[k])
        THEN None
        ELSE Some(IF Head(text) = "-" THEN 0 - ParseDigits(body, 0)
                  ELSE ParseDigits(body, 0))

RECURSIVE NatToText(_)
NatToText(n) ==
    IF n < 10 THEN <<Digits[n + 1]>>
    ELSE NatToText(n \div 10) \o <<Digits[(n % 10) + 1]>>

\* i64::to_string
I64ToText(n) == IF n < 0 THEN <<"-">> \o NatToText(0 - n) ELSE NatToText(n)

\* String::pop
Pop(text) == IF text = <<>> THEN text ELSE SubSeq(text, 1, Len(text) - 1)

MenuItems ==
    <<"Skip", "Pause/Resume", "Stop", "Shuffle", "Clear Queue", "Loop Track",
      "Loop Queue", "Loop Off", "24/7 Mode Toggle", "Filters...", "Lyrics",
      "Play Turip", "Auth", "Settings", "Exit TUI">>

FilterItems ==
    <<"Clear", "Bassboost", "Nightcore", "Vaporwave", "8D", "Soft", "Tremolo",
      "Vibrato", "Karaoke">>

AuthMenuItems == <<"Login", "Signout", "Info">>

\* the wrap-around selection steps shared by the three menus
SelectNext(sel, n) ==
    IF IsSome(sel) THEN Some(IF Unwrap(sel) >= n - 1 THEN 0 ELSE Unwrap(sel) + 1)
    ELSE Some(0)

SelectPrev(sel, n) ==
    IF IsSome(sel) THEN Some(IF Unwrap(sel) = 0 THEN n - 1 ELSE Unwrap(sel) - 1)
    ELSE Some(0)

-----------------------------------------------------------------------------
(* run_loop's key handler (tui.rs 964-1293).  Each view's arm gives the   *)
(* new App, the task it spawns (if any), what it writes to settings.json   *)
(* and whether run_loop returns.                                           *)

Eff(a, spawn, quit) == [app |-> a, spawn |-> spawn, save |-> None, quit |-> quit]

Keep(a) == Eff(a, None, FALSE)

\* a fatal overlay that Esc dismisses into the menu
FatalKeysEscOpensMenu(a, k) ==
    IF IsReload(k)
    THEN Eff([a EXCEPT !.fatal_error = None, !.error_message = None],
             Some("fetch"), FALSE)
    ELSE IF k.code = "Esc" THEN Keep([a EXCEPT !.view = "Menu"])
    ELSE Keep(a)

FatalKeys(a, k) ==
    IF IsReload(k)
    THEN Eff([a EXCEPT !.fatal_error = None, !.error_message = None],
             Some("fetch"), FALSE)
    ELSE Keep(a)

\* tui.rs 976-995
EditingKeys(a, k) ==
    CASE k.code = "Enter" ->
            Eff([a EXCEPT !.input = <<>>, !.input_mode = "Normal"], Some("play"), FALSE)
      [] k.code = "Esc" -> Keep([a EXCEPT !.input_mode = "Normal", !.input = <<>>])
      [] k.code = "Char" -> Keep([a EXCEPT !.input = Append(a.input, k.c)])
      [] k.code = "Backspace" -> Keep([a EXCEPT !.input = Pop(a.input)])
      [] OTHER -> Keep(a)

\* tui.rs 1016-1042
MenuEnter(a) ==
    IF a.menu_state = None THEN Keep(a)
    ELSE LET item == MenuItems[Unwrap(a.menu_state) + 1]
             main == [a EXCEPT !.view = "Main"]
         IN  CASE item \in {"Skip", "Pause/Resume", "Stop", "Shuffle", "Clear Queue",
                            "24/7 Mode Toggle"} -> Eff(main, Some("simple"), FALSE)
               [] item = "Loop Track" ->
                    Eff([main EXCEPT !.loop_mode = "track"], Some("simple"), FALSE)
               [] item = "Loop Queue" ->
                    Eff([main EXCEPT !.loop_mode = "queue"], Some("simple"), FALSE)
               [] item = "Loop Off" ->
                    Eff([main EXCEPT !.loop_mode = "off"], Some("simple"), FALSE)
               [] item = "Filters..." -> Keep([a EXCEPT !.view = "FilterMenu"])
               [] item = "Lyrics" -> Eff(a, Some("lyrics"), FALSE)
               [] item = "Play Turip" -> Eff(main, Some("play"), FALSE)
               [] item = "Auth" -> Keep([a EXCEPT !.view = "AuthMenu"])
               [] item = "Settings" ->
                    Keep([a EXCEPT !.settings_input = a.base_url, !.view = "Settings"])
               [] item = "Exit TUI" -> Eff(a, None, TRUE)

\* tui.rs 998-1046
MenuKeys(a, k) ==
    CASE k.code \in {"Esc", "Tab"} -> Keep([a EXCEPT !.view = "Main"])
      [] IsDown(k) ->
            Keep([a EXCEPT !.menu_state = SelectNext(a.menu_state, Len(MenuItems))])
      [] IsUp(k) ->
            Keep([a EXCEPT !.menu_state = SelectPrev(a.menu_state, Len(MenuItems))])
      [] k.code = "Enter" -> MenuEnter(a)
      [] OTHER -> Keep(a)

\* tui.rs 1049-1076
SettingsEnter(a) ==
    LET parsed == ParseI64(a.offset_input)
        offset == IF IsSome(parsed) THEN Unwrap(parsed) ELSE a.visualizer_offset
        a2 == [a EXCEPT !.base_url = a.settings_input,
                        !.visualizer_offset = offset,
                        !.needs_reconnect =
                            IF a.base_url # a.settings_input THEN TRUE
                            ELSE a.needs_reconnect,
                        !.view = IF a.token = None THEN "LoginRequired" ELSE "Main"]
    IN  [Eff(a2, Some("fetch"), FALSE) EXCEPT
            !.save = Some([base_url |-> a2.base_url, visualizer_offset |-> offset])]

\* tui.rs 1047-1108
SettingsKeys(a, k) ==
    CASE k.code = "Enter" -> SettingsEnter(a)
      [] k.code = "Esc" ->
            Keep([a EXCEPT !.view = IF a.token = None THEN "LoginRequired" ELSE "Main"])
      [] k.code \in {"Down", "Up", "Tab"} ->
            Keep([a EXCEPT !.settings_field =
                    IF a.settings_field = "Host" THEN "Offset" ELSE "Host"])
      [] k.code = "Backspace" ->
            Keep(IF a.settings_field = "Host"
                 THEN [a EXCEPT !.settings_input = Pop(a.settings_input)]
                 ELSE [a EXCEPT !.offset_input = Pop(a.offset_input)])
      [] k.code = "Char" ->
            Keep(IF a.settings_field = "Host"
                 THEN [a EXCEPT !.settings_input = Append(a.settings_input, k.c)]
                 ELSE IF IsDigit(k.c) \/ (k.c = "-" /\ a.offset_input = <<>>)
                      THEN [a EXCEPT !.offset_input = Append(a.offset_input, k.c)]
                      ELSE a)
      [] OTHER -> Keep(a)

\* tui.rs 1136-1161: the Info item, from api::load_auth()
AuthInfo(a, auth) ==
    [a EXCEPT !.view = "AuthResult",
              !.auth_info_text =
                  IF IsSome(auth) THEN Some(<<"Auth info", Unwrap(auth).username>>)
                  ELSE Some("Not authenticated. Run Login.")]

\* tui.rs 1109-1168
AuthMenuKeys(a, k, auth) ==
    CASE k.code \in {"Esc", "Tab"} -> Keep([a EXCEPT !.view = "Main"])
      [] k.code = "Backspace" -> Keep([a EXCEPT !.view = "Menu"])
      [] IsDown(k) ->
            Keep([a EXCEPT !.auth_menu_state =
                    SelectNext(a.auth_menu_state, Len(AuthMenuItems))])
      [] IsUp(k) ->
            Keep([a EXCEPT !.auth_menu_state =
                    SelectPrev(a.auth_menu_state, Len(AuthMenuItems))])
      [] k.code = "Enter" ->
            (IF a.auth_menu_state = None THEN Keep(a)
             ELSE LET item == AuthMenuItems[Unwrap(a.auth_menu_state) + 1]
                  IN  CASE item = "Login" -> Eff(a, Some("login"), FALSE)
                        [] item = "Signout" -> Eff(a, Some("signout"), FALSE)
                        [] item = "Info" -> Keep(AuthInfo(a, auth)))
      [] OTHER -> Keep(a)

\* tui.rs 1169-1174
AuthResultKeys(a, k) ==
    IF k.code \in {"Esc", "Enter", "Backspace"}
    THEN Keep([a EXCEPT !.view = "AuthMenu"]) ELSE Keep(a)

\* tui.rs 1175-1187
LoginRequiredKeys(a, k) ==
    CASE k.code = "Enter" -> Eff(a, Some("login"), FALSE)
      [] IsCharIn(k, {"\\"}) ->
            Keep([a EXCEPT !.settings_input = a.base_url, !.view = "Settings"])
      [] IsQuit(k) -> Eff(a, None, TRUE)
      [] OTHER -> Keep(a)

\* tui.rs 1188-1222
FilterMenuKeys(a, k) ==
    CASE k.code = "Esc" -> Keep([a EXCEPT !.view = "Main"])
      [] k.code = "Backspace" -> Keep([a EXCEPT !.view = "Menu"])
      [] IsDown(k) ->
            Keep([a EXCEPT !.filter_state =
                    SelectNext(a.filter_state, Len(FilterItems))])
      [] IsUp(k) ->
            Keep([a EXCEPT !.filter_state =
                    SelectPrev(a.filter_state, Len(FilterItems))])
      [] k.code = "Enter" ->
            IF a.filter_state = None THEN Keep(a)
            ELSE Eff([a EXCEPT !.view = "Main"], Some("simple"), FALSE)
      [] OTHER -> Keep(a)

\* a lyrics view that the quit key leaves by ending the loop
LyricsKeysQuit(a, k) ==
    CASE k.code = "Esc" -> Keep([a EXCEPT !.view = "Main"])
      [] IsCharIn(k, {"q", "cyr-short-i"}) -> Eff(a, None, TRUE)
      [] OTHER -> Keep(a)

\* tui.rs 1223-1235; lyrics_scroll is a u16
LyricsKeys(a, k) ==
    CASE k.code = "Esc" -> Keep([a EXCEPT !.view = "Main"])
      [] k.code = "Backspace" -> Keep([a EXCEPT !.view = "Menu"])
      [] IsDown(k) -> Keep([a EXCEPT !.lyrics_scroll = Min(65535, a.lyrics_scroll + 1)])
      [] IsUp(k) -> Keep([a EXCEPT !.lyrics_scroll = Max(0, a.lyrics_scroll - 1)])
      [] OTHER -> Keep(a)

NextLoopMode(m) ==
    CASE m = "off" -> "track" [] m = "track" -> "queue" [] OTHER -> "off"

\* tui.rs 1236-1276
MainKeys(a, k) ==
    CASE IsQuit(k) -> Eff(a, None, TRUE)
      [] IsReload(k) -> Eff(a, Some("fetch"), FALSE)
      [] k.code = "Tab" -> Keep([a EXCEPT !.view = "Menu"])
      [] k.code = "Enter" -> Keep([a EXCEPT !.input_mode = "Editing"])
      [] IsCharIn(k, {"l", "cyr-de"}) ->
            Eff([a EXCEPT !.loop_mode = NextLoopMode(a.loop_mode)], Some("simple"), FALSE)
      [] IsCharIn(k, {"s", "cyr-yeru", "cyr-i", "w", "cyr-tse", "c", "cyr-es"}) ->
            Eff(a, Some("simple"), FALSE)
      [] IsCharIn(k, {"d"}) /\ k.ctrl -> Keep([a EXCEPT !.view = "Debug"])
      [] k.code = "Char" ->
            Keep([a EXCEPT !.input_mode = "Editing", !.input = Append(a.input, k.c)])
      [] OTHER -> Keep(a)

\* App::save_spectrogram (tui.rs 183-218); fs is what the file system does
SaveSpectrogram(a, t, fs) ==
    IF a.spectrogram = None
    THEN AppLog(a, t, "Save failed: No spectrogram data available.")
    ELSE CASE fs = "no_desktop" ->
                AppLog(a, t, "Save failed: Could not find Desktop directory.")
           [] fs = "write_fail" -> AppLog(a, t, "Save failed: Could not write to file.")
           [] OTHER -> AppLog(a, t, <<"Spectrogram saved to: ", Timestamp(t)>>)

\* tui.rs 1277-1291
DebugKeys(a, k, t, fs) ==
    CASE IsCharIn(k, {"s", "cyr-yeru"}) -> Keep(SaveSpectrogram(a, t, fs))
      [] k.code = "Esc" \/ IsQuit(k) ->
            Keep([a EXCEPT !.view = IF a.token = None THEN "LoginRequired" ELSE "Main"])
      [] OTHER -> Keep(a)

KeyEffect(a, k, t, fs, auth) ==
    IF IsSome(a.fatal_error) THEN FatalKeys(a, k)
    ELSE IF a.input_mode = "Editing" THEN EditingKeys(a, k)
    ELSE CASE a.view = "Menu" -> MenuKeys(a, k)
           [] a.view = "Settings" -> SettingsKeys(a, k)
           [] a.view = "AuthMenu" -> AuthMenuKeys(a, k, auth)
           [] a.view = "AuthResult" -> AuthResultKeys(a, k)
           [] a.view = "LoginRequired" -> LoginRequiredKeys(a, k)
           [] a.view = "FilterMenu" -> FilterMenuKeys(a, k)
           [] a.view = "Lyrics" -> LyricsKeys(a, k)
           [] a.view = "Main" -> MainKeys(a, k)
           [] a.view = "Debug" -> DebugKeys(a, k, t, fs)

StartPc(kind) ==
    CASE kind = "fetch" -> "fq_start"
      [] kind \in {"simple", "play"} -> "cmd_start"
      [] kind = "lyrics" -> "ly_start"
      [] kind = "login" -> "al_start"
      [] kind = "signout" -> "so_start"

-----------------------------------------------------------------------------
(* run_loop (tui.rs 953-1298)                                              *)

\* tui.rs 955-959: lock, update_realtime, draw, unlock
RenderTick ==
    /\ rl.pc = "run"
    /\ lock = Unlocked
    /\ app' = UpdateRealtime(app, now)
    /\ UNCHANGED <<now, lock, ws, tasks, rl, net, hist, disk>>

\* tui.rs 961-1293: one key press handled under the lock
KeyPress(k, fs) ==
    /\ rl.pc = "run"
    /\ lock = Unlocked
    /\ LET eff == KeyEffect(app, k, now, fs, disk.auth)
       IN  /\ IsSome(eff.spawn) => HasFreeSlot(tasks)
           /\ Len(eff.app.input) <= MaxText
           /\ Len(eff.app.settings_input) <= MaxText
           /\ Len(eff.app.offset_input) <= MaxText
           /\ eff.app.lyrics_scroll <= MaxScroll
           /\ app' = eff.app
           /\ tasks' = IF IsSome(eff.spawn)
                       THEN Spawn(tasks, Unwrap(eff.spawn), StartPc(Unwrap(eff.spawn)))
                       ELSE tasks
           /\ disk' = IF IsSome(eff.save)
                      THEN [disk EXCEPT !.settings = eff.save] ELSE disk
           /\ rl' = IF eff.quit THEN [rl EXCEPT !.pc = "returned"] ELSE rl
    /\ UNCHANGED <<now, lock, ws, net, hist>>

\* tui.rs 958, 961, 962: terminal.draw, event::poll or event::read returns
\* an Err, which `?` returns from run_loop; the draw follows update_realtime
TerminalFault(op) ==
    /\ rl.pc = "run"
    /\ IF op = "draw"
       THEN lock = Unlocked /\ app' = UpdateRealtime(app, now)
       ELSE app' = app
    /\ rl' = [rl EXCEPT !.pc = "failed"]
    /\ UNCHANGED <<now, lock, ws, tasks, net, hist, disk>>

\* wall-clock time passes
Advance(d) ==
    /\ rl.pc = "run"
    /\ now + d <= MaxNow
    /\ now' = now + d
    /\ UNCHANGED <<app, lock, ws, tasks, rl, net, hist, disk>>

-----------------------------------------------------------------------------
(* The state after run() has built the App and spawned its tasks           *)
(* (tui.rs 920-948)                                                        *)

DefaultHost == <<"http://", "a">>

DefaultOffset == 200

BaseApp(token, guild_id) ==
    AppNew(DefaultHost, DefaultOffset, I64ToText(DefaultOffset), token, guild_id,
           Some("u1"), 0)

PollTask == [FreeTask EXCEPT !.kind = "poll", !.pc = "poll_wait", !.wake = 0]

\* the poll task, the initial fetch of tui.rs 934, and the free slots
StartTasks ==
    [i \in TaskIds |-> IF i = 0 THEN PollTask
                       ELSE IF i = 1 THEN NewTask("fetch", "fq_start")
                       ELSE FreeTask]

\* the same once the initial fetch has returned
IdleTasks == [i \in TaskIds |-> IF i = 0 THEN PollTask ELSE FreeTask]

HistInit ==
    [attempt |-> None, prev_attempt |-> None, ended |-> None, subscribed |-> None,
     payload |-> None, repeat |-> FALSE, before |-> None, calls |-> 0,
     fatal_at |-> None, reply |-> None, cli_reply |-> None, cli_exit |-> None,
     ticked |-> None]

DiskInit == [auth |-> None, settings |-> None]

-----------------------------------------------------------------------------
(* SpecLog: App::log applied to logs of every fill level                   *)

MaxLogCalls == 3

LogSeedLens == {0, 1, LogCap - 1, LogCap}

\* a log filled by n earlier calls, one a second, up to the instant 0
SeedLog(n) == [i \in 1..n |-> <<86400 - n + i - 1, "WS Event: state_update">>]

LogMsgs == {"WS Connected", "WS Closed", "Received Queue Update"}

LogCall(msg) ==
    /\ hist.calls < MaxLogCalls
    /\ app' = AppLog(app, now, msg)
    /\ hist' = [hist EXCEPT !.calls = hist.calls + 1]
    /\ UNCHANGED <<now, lock, ws, tasks, rl, net, disk>>

InitLog ==
    /\ \E n \in LogSeedLens :
          app = [BaseApp(Some("tok"), Some("g1")) EXCEPT !.debug_logs = SeedLog(n)]
    /\ now = 0
    /\ lock = Unlocked
    /\ ws = WsInit(0)
    /\ tasks = IdleTasks
    /\ rl = [pc |-> "run"]
    /\ net = [healthy |-> TRUE, msgs |-> 0]
    /\ disk = DiskInit
    /\ hist = HistInit

NextLog ==
    \/ \E msg \in LogMsgs : LogCall(msg)
    \/ Advance(1000)

SpecLog == InitLog /\ [][NextLog]_vars

\* C9: the debug log never holds more than 100 entries, and a log() call on
\* a full log keeps the length at 100, drops the oldest entry and appends
\* the new one last, the other entries keeping their order.
C9_LogBounded ==
    /\ [](Len(app.debug_logs) <= LogCap)
    /\ [][\A msg \in LogMsgs :
            (LogCall(msg) /\ Len(app.debug_logs) = LogCap) =>
                /\ Len(app'.debug_logs) = LogCap
                /\ app'.debug_logs = Tail(app.debug_logs) \o <<LogEntry(now, msg)>>]_vars

\* a full log has taken one more entry
C9_Witness ==
    /\ Len(app.debug_logs) = LogCap
    /\ hist.calls >= 2
    /\ app.debug_logs[LogCap][2] = "WS Closed"
    /\ app.debug_logs[1][2] = "WS Event: state_update"

-----------------------------------------------------------------------------
(* SpecQueue: App::parse_queue_response applied to payloads in succession  *)

MaxApplies == 2

Track(title, author) == [title |-> title, author |-> author]

QueuePayloads ==
    {JObj(s, c, cur, up, None) :
        s \in {None, Some("g2")}, c \in {None, Some("g1")},
        cur \in {None, Some(Track(Some("T1"), None))},
        up \in {None, Some(<<>>),
                Some(<<Track(Some("T2"), Some("A2")), Track(None, None)>>)}}
    \cup {JArr(None)}

\* the fields the idempotence claim is about
QView(a) == <<a.queue, a.current_track, a.guild_id>>

QueueApply(j) ==
    /\ hist.calls < MaxApplies
    /\ app' = ParseQueueResponse(app, now, j)
    /\ hist' = [hist EXCEPT !.calls = hist.calls + 1,
                            !.payload = Some(j),
                            !.repeat = (hist.payload = Some(j)),
                            !.before = Some(QView(app))]
    /\ UNCHANGED <<now, lock, ws, tasks, rl, net, disk>>

InitQueue ==
    /\ \E g \in {None, Some("g1")}, q \in {<<>>, <<"T0 - A0">>} :
          app = [BaseApp(Some("tok"), g) EXCEPT
                    !.queue = q,
                    !.current_track = IF q = <<>> THEN None ELSE Some("T9 - ")]
    /\ now = 0
    /\ lock = Unlocked
    /\ ws = WsInit(0)
    /\ tasks = IdleTasks
    /\ rl = [pc |-> "run"]
    /\ net = [healthy |-> TRUE, msgs |-> 0]
    /\ disk = DiskInit
    /\ hist = HistInit

NextQueue == \E j \in QueuePayloads : QueueApply(j)

SpecQueue == InitQueue /\ [][NextQueue]_vars

\* C8: applying the same queue payload a second time in succession leaves
\* queue, current_track and guild_id as the first application left them.
C8_QueueIdempotent == hist.repeat => QView(app) = Unwrap(hist.before)

\* a payload with a guild and two upcoming tracks has been applied twice
C8_Witness ==
    /\ hist.repeat
    /\ Len(app.queue) = 2
    /\ app.guild_id = Some("g2")
    /\ IsSome(app.current_track)

-----------------------------------------------------------------------------
(* What the remote service sends                                           *)

RespErr(text) == [kind |-> "err", text |-> text]

\* a success status; json is None when the body does not decode
RespOk(json) == [kind |-> "ok", success |-> TRUE, json |-> json]

\* a non-success status with the body text and what the code finds in it
RespBad(error, message, guild_required, text) ==
    [kind |-> "ok", success |-> FALSE, error |-> error, message |-> message,
     guild_required |-> guild_required, text |-> text]

RespFatal ==
    RespBad(Some("bad_request"), Some("user_not_in_voice_channel_or_guild_unknown"),
            FALSE, "{bad_request}")

Playback(elapsed, duration, paused, spectrogram) ==
    [elapsed_ms |-> elapsed, duration_ms |-> duration, paused |-> paused,
     spectrogram |-> spectrogram]

WsEvent(type, guild, data, playback) ==
    [event_type |-> type, guild_id |-> guild, data |-> data, playback |-> playback]

Frame(v) == [i \in 1..NBars |-> v]

NowPlaying == JObj(None, None, Some(Track(Some("T1"), Some("A1"))),
                   Some(<<Track(Some("T2"), None)>>), None)

-----------------------------------------------------------------------------
(* SpecEvents: a connected stream client receiving events, the render     *)
(* loop ticking and the spawned fetches completing                         *)

MaxMsgs == 2

MaxNowEvents == 1000

EventTypes ==
    {"spectrogram_update", "state_update", "initial_state", "queue_update",
     "track_start", "track_end", "player_update", "volume_update"}

\* events of the session's guild
OwnEvents ==
    {WsEvent("state_update", Some("g1"), None,
             Some(Playback(199500, 200000, FALSE, None))),
     WsEvent("initial_state", Some("g1"),
             Some(JObj(None, None, None, None,
                       Some(Playback(200500, 200000, TRUE, Some(<<Frame(200)>>))))),
             None),
     WsEvent("state_update", Some("g1"),
             Some(JObj(None, None, None, None,
                       Some(Playback(3000, 100000, TRUE, None)))),
             Some(Playback(1000, 200000, FALSE, None))),
     WsEvent("initial_state", Some("g1"), Some(NowPlaying), None),
     WsEvent("queue_update", Some("g1"), Some(NowPlaying), None),
     WsEvent("queue_update", Some("g1"), None, None),
     WsEvent("spectrogram_update", Some("g1"), Some(JArr(Some(<<Frame(90)>>))), None),
     WsEvent("track_start", Some("g1"), None, None),
     WsEvent("volume_update", Some("g1"), None, None)}

\* events of another guild, or of none: one of each type
ForeignEvents ==
    {WsEvent(ty, g,
             IF ty = "spectrogram_update" THEN Some(JArr(Some(<<Frame(90)>>)))
             ELSE IF ty = "queue_update" THEN Some(NowPlaying) ELSE None,
             IF ty \in {"state_update", "initial_state"}
             THEN Some(Playback(5000, 9000, FALSE, Some(<<Frame(7)>>))) ELSE None) :
        ty \in EventTypes, g \in {Some("g2")}}
    \cup {WsEvent("state_update", None, None, Some(Playback(1, 2, FALSE, None)))}

Events == OwnEvents \cup ForeignEvents

EventResponses == {RespOk(Some(NowPlaying)), RespErr("timeout")}

InitEvents ==
    /\ app = BaseApp(Some("tok"), Some("g1"))
    /\ now = 0
    /\ lock = Unlocked
    /\ ws = WsInit(0)
    /\ tasks = IdleTasks
    /\ rl = [pc |-> "run"]
    /\ net = [healthy |-> FALSE, msgs |-> MaxMsgs]
    /\ disk = DiskInit
    /\ hist = HistInit

AdvanceEvents ==
    /\ now + 1000 <= MaxNowEvents
    /\ Advance(1000)

NextEvents ==
    \/ WsLoopTop
    \/ WsAnnounce
    \/ WsConnectOk
    \/ WsSubscribe
    \/ \E e \in Events : WsRecvEvent(e)
    \/ WsRecvUnparsed("{")
    \/ WsRecvOther
    \/ WsIdleCheck
    \/ RenderTick
    \/ AdvanceEvents
    \/ \E i \in 1..MaxTasks : FetchStart(i)
    \/ \E i \in 1..MaxTasks, r \in EventResponses : FetchSent(i, r)
    \/ \E i \in 1..MaxTasks : FetchLock(i)
    \/ \E i \in 1..MaxTasks : FetchBody(i)

SpecEvents == InitEvents /\ [][NextEvents]_vars

\* what the handler logs for an event before and outside the guild filter
UnfilteredLog(logs, t, e) ==
    LET first == Log(logs, t, "WS Event: " \o e.event_type)
    IN  IF e.event_type \in EventTypes \ {"volume_update"} THEN first
        ELSE Log(first, t, "WS Unhandled Event: " \o e.event_type)

\* C2 (as amended): handling an event whose guildId differs from the
\* session's guild_id changes no field of App other than debug_logs, which
\* gains the entries logged outside the guild filter, and spawns no task.
C2_ForeignEventOnlyLogs ==
    [][\A e \in Events :
        (WsRecvEvent(e) /\ e.guild_id # app.guild_id) =>
            /\ [app' EXCEPT !.debug_logs = app.debug_logs] = app
            /\ app'.debug_logs = UnfilteredLog(app.debug_logs, now, e)
            /\ tasks' = tasks]_vars

\* C2 as stated: every field of App is unchanged
C2_ForeignEventNoChange ==
    [][\A e \in Events :
        (WsRecvEvent(e) /\ e.guild_id # app.guild_id) => app' = app]_vars

\* a spectrogram_update of another guild has been handled: it is in the
\* log, and no spectrogram is stored
C2_Witness ==
    /\ \E k \in 1..Len(app.debug_logs) :
          app.debug_logs[k][2] = "WS Event: spectrogram_update"
    /\ app.spectrogram = None
    /\ app.guild_id = Some("g1")

\* C3: right after update_realtime has run, duration_ms > 0 implies
\* elapsed_ms <= duration_ms.
C3_ClampedAfterTick ==
    [][RenderTick => (app'.duration_ms > 0 => app'.elapsed_ms <= app'.duration_ms)]_vars

\* C10: in every reachable state duration_ms > 0 implies
\* elapsed_ms <= duration_ms.
C10_ElapsedWithinDuration ==
    app.duration_ms > 0 => app.elapsed_ms <= app.duration_ms

-----------------------------------------------------------------------------
(* Spec: the render loop's key handler and ticks, the poll task and the    *)
(* spawned fetch, command and lyrics tasks sharing the App lock            *)

MaxNowTasks == 500

\* the user is on the main view, or has opened the menu on "Lyrics"
StartViews == {"Main", "Menu"}

TaskKeys ==
    {CharKey("r"), CharKey("s"), Key("Enter")}

\* the user types no query text
NoQueryText == app'.input = <<>>

FetchResponses ==
    {RespOk(Some(NowPlaying)),
     RespBad(None, None, TRUE, "guild_id is required"),
     RespErr("timeout")}

CmdResponses == {RespOk(None), RespErr("timeout")}

LyricsResponses ==
    {RespErr("timeout"), [kind |-> "ok", lyrics |-> Some(Some("la la"))]}

Init ==
    /\ \E v \in StartViews :
          app = [BaseApp(Some("tok"), Some("g1"))
                   EXCEPT !.view = v, !.menu_state = Some(10)]
    /\ now = 0
    /\ lock = Unlocked
    /\ ws = WsInit(0)
    /\ tasks = StartTasks
    /\ rl = [pc |-> "run"]
    /\ net = [healthy |-> FALSE, msgs |-> 0]
    /\ disk = DiskInit
    /\ hist = HistInit

AdvanceTasks ==
    /\ now + 500 <= MaxNowTasks
    /\ Advance(500)

\* the tasks run until run_loop returns and the runtime shuts down
Running == rl.pc = "run"

Next ==
    \/ \E k \in TaskKeys : KeyPress(k, "ok") /\ NoQueryText
    \/ RenderTick
    \/ Running /\ PollTick
    \/ AdvanceTasks
    \/ \E i \in TaskIds : Running /\ FetchStart(i)
    \/ \E i \in TaskIds, r \in FetchResponses : Running /\ FetchSent(i, r)
    \/ \E i \in TaskIds : Running /\ FetchLock(i)
    \/ \E i \in TaskIds : Running /\ FetchBody(i)
    \/ \E i \in TaskIds : Running /\ FetchText(i)
    \/ \E i \in TaskIds : Running /\ CmdStart(i)
    \/ \E i \in TaskIds, r \in CmdResponses : Running /\ CmdSent(i, r)
    \/ \E i \in TaskIds : Running /\ CmdDelayDone(i)
    \/ \E i \in TaskIds : Running /\ LyricsStart(i)
    \/ \E i \in TaskIds, r \in LyricsResponses : Running /\ LyricsSent(i, r)
    \/ \E i \in TaskIds : Running /\ LyricsLock(i)
    \/ \E i \in TaskIds : Running /\ LyricsBody(i)

Spec == Init /\ [][Next]_vars

\* the positions at which a task is suspended on the network: a request in
\* flight or a response body being read
NetworkPcs == {"fq_send", "fq_body", "fq_text", "cmd_send", "ly_send", "ly_body"}

\* C1: no task holds the App lock while it is suspended on network I/O.
C1_NoLockAcrossNetworkIO ==
    \A i \in TaskIds : tasks[i].pc \in NetworkPcs => lock # HeldBy(i)

\* C7: when the request of a dispatched command failed at the network
\* level, an error message is in the state once the command's task returns.
C7_CommandFailureStored ==
    [][\A i \in TaskIds :
        (tasks[i].cmd_result = Some("err") /\ tasks'[i].kind = "free")
            => IsSome(app'.error_message)]_vars

-----------------------------------------------------------------------------
(* SpecFatal: the fatal error of async_fetch_queue against everything that *)
(* runs after it: fetch results, poll ticks, commands, render ticks, keys  *)
(* and stream events of a connected stream client                          *)

MaxNowFatal == 1000

FatalKeySet == {CharKey("r"), CharKey("s"), Key("Esc"), Key("Tab")}

FatalResponses == {RespOk(Some(NowPlaying)), RespFatal, RespErr("timeout")}

FatalEvents ==
    {WsEvent("queue_update", Some("g1"), Some(NowPlaying), None),
     WsEvent("track_start", Some("g1"), None, None)}

\* the App once the stream client has connected at instant t
ConnectedApp(a, t) ==
    [AppLog(AppLog(a, t, <<"WS Connecting to ">> \o WsUrl(a.base_url, Unwrap(a.token))),
            t, "WS Connected")
       EXCEPT !.ws_connected = TRUE, !.ws_connecting = FALSE]

\* the stream client in its receive loop, subscribed at instant t
ConnectedWs(a, t) ==
    [WsInit(t) EXCEPT !.pc = "recv", !.base_url = a.base_url, !.token = a.token,
                      !.guild_id = a.guild_id, !.wake = t + WsIdleCheckMs]

ConnectedHist(a, t) ==
    [HistInit EXCEPT !.attempt = Some(t), !.subscribed = Some(a.guild_id)]

InitFatal ==
    /\ app = ConnectedApp(BaseApp(Some("tok"), Some("g1")), 0)
    /\ now = 0
    /\ lock = Unlocked
    /\ ws = ConnectedWs(BaseApp(Some("tok"), Some("g1")), 0)
    /\ tasks = StartTasks
    /\ rl = [pc |-> "run"]
    /\ net = [healthy |-> FALSE, msgs |-> 1]
    /\ disk = DiskInit
    /\ hist = ConnectedHist(BaseApp(Some("tok"), Some("g1")), 0)

AdvanceFatal ==
    /\ now + 1000 <= MaxNowFatal
    /\ Advance(1000)

\* a key, or an event, starts a task only when no spawned task is running
OneSpawned ==
    \/ tasks' = tasks
    \/ \A i \in TaskIds \ {0} : tasks[i].kind = "free"

ReloadPress == \E k \in FatalKeySet : IsReload(k) /\ KeyPress(k, "ok")

NextFatal ==
    \/ \E k \in FatalKeySet : KeyPress(k, "ok") /\ OneSpawned
    \/ RenderTick
    \/ Running /\ PollTick
    \/ AdvanceFatal
    \/ \E e \in FatalEvents : Running /\ WsRecvEvent(e) /\ OneSpawned
    \/ Running /\ WsIdleCheck
    \/ \E i \in TaskIds : Running /\ FetchStart(i)
    \/ \E i \in TaskIds, r \in FatalResponses : Running /\ FetchSent(i, r)
    \/ \E i \in TaskIds : Running /\ FetchLock(i)
    \/ \E i \in TaskIds : Running /\ FetchBody(i)
    \/ \E i \in TaskIds : Running /\ FetchText(i)
    \/ \E i \in TaskIds : Running /\ CmdStart(i)
    \/ \E i \in TaskIds, r \in CmdResponses : Running /\ CmdSent(i, r)
    \/ \E i \in TaskIds : Running /\ CmdDelayDone(i)

SpecFatal == InitFatal /\ [][NextFatal]_vars

\* C6: once fatal_error is set, only the press of the reload key clears it.
C6_FatalUntilReload ==
    [][(IsSome(app.fatal_error) /\ app'.fatal_error = None) => ReloadPress]_vars

\* the fatal error was set at instant 0 and is still set after a stream
\* event was handled and the render loop ticked one second later
C6_Witness ==
    /\ IsSome(app.fatal_error)
    /\ hist.fatal_at = Some(0)
    /\ \E k \in 1..Len(app.debug_logs) :
          app.debug_logs[k] = LogEntry(1000, "Received Queue Update")
    /\ app.last_state_update = 1000

-----------------------------------------------------------------------------
(* SpecWs: the stream client's whole loop against the clock: waiting for   *)
(* credentials, URL errors, handshakes that fail, sessions that end, and   *)
(* a host saved from the settings view                                     *)

\* a host text that Url::parse rejects (no scheme)
BadHost == <<"a">>

OtherHost == <<"https://", "a">>

\* the App of a session started with the given token and stored host, the
\* user having opened the settings view and typed OtherHost
StartApp(token, host) ==
    [BaseApp(token, Some("g1")) EXCEPT !.base_url = host,
                                       !.view = "Settings",
                                       !.menu_state = Some(13),
                                       !.settings_input = OtherHost]

MaxNowWs == 11000

\* without a token the client has been waiting since before the
\* observation starts; with one it has just been spawned
InitWs ==
    /\ \/ /\ app = StartApp(None, DefaultHost)
          /\ ws = WsInit(0 - WsWaitLogMs)
       \/ /\ \E host \in {DefaultHost, BadHost} : app = StartApp(Some("tok"), host)
          /\ ws = WsInit(0)
    /\ now = 0
    /\ lock = Unlocked
    /\ tasks = IdleTasks
    /\ rl = [pc |-> "run"]
    /\ net = [healthy |-> FALSE, msgs |-> 0]
    /\ disk = DiskInit
    /\ hist = HistInit

AdvanceWs ==
    /\ now + 1000 <= MaxNowWs
    /\ Advance(1000)

\* Enter in the settings view saves the host
SaveSettings == app.view = "Settings" /\ KeyPress(Key("Enter"), "ok")

NextWs ==
    \/ WsLoopTop
    \/ WsWaitLog
    \/ WsWaitSleepDone
    \/ WsParseErr
    \/ WsParseErrWake
    \/ WsAnnounce
    \/ WsConnectOk
    \/ WsConnectFail
    \/ WsSubscribe
    \/ WsRecvErr
    \/ WsRecvClosed
    \/ WsIdleCheck
    \/ WsCleanup
    \/ WsCooldownDone
    \/ SaveSettings
    \/ AdvanceWs

SpecWs == InitWs /\ [][NextWs]_vars

\* C4: a connection attempt is made no sooner than one cool-down after the
\* last Connected session ended by transport error or close, and no sooner
\* than one cool-down after the previous attempt.
C4_CooldownBeforeAttempt ==
    [][WsAnnounce =>
         /\ IsSome(hist.ended) => now >= Unwrap(hist.ended) + WsCooldownMs
         /\ IsSome(hist.attempt) => now >= Unwrap(hist.attempt) + WsCooldownMs]_vars

\* a second attempt is under way after a session that ended
C4_Witness ==
    /\ ws.pc = "connecting"
    /\ IsSome(hist.prev_attempt)
    /\ IsSome(hist.ended)
    /\ Unwrap(hist.ended) >= Unwrap(hist.prev_attempt)

-----------------------------------------------------------------------------
(* SpecWsLive: the stream client under fair scheduling.  The transport     *)
(* fails only before HealBy and may heal at any time; the clock moves to   *)
(* the end of the sleep the client is in and saturates at MaxNowLive:      *)
(* sleeps that end later still end, without moving it.                     *)

HealBy == 1000

MaxNowLive == HealBy + WsCooldownMs

\* the App of a connected session whose user then saved `host` from the
\* settings view; the fetch that the save spawned has failed
EditedApp(host) ==
    LET a == ConnectedApp(BaseApp(Some("tok"), Some("g1")), 0)
        saved == SettingsEnter([a EXCEPT !.view = "Settings", !.menu_state = Some(13),
                                         !.settings_input = host]).app
    IN  [saved EXCEPT !.error_message = Some("Network error: builder error")]

InitWsLive ==
    /\ \/ /\ app = BaseApp(Some("tok"), Some("g1"))
          /\ ws = WsInit(0)
          /\ hist = HistInit
          /\ disk = DiskInit
       \/ /\ app = EditedApp(BadHost)
          /\ ws = ConnectedWs(BaseApp(Some("tok"), Some("g1")), 0)
          /\ hist = ConnectedHist(BaseApp(Some("tok"), Some("g1")), 0)
          /\ disk = [DiskInit EXCEPT !.settings =
                        Some([base_url |-> BadHost, visualizer_offset |-> DefaultOffset])]
    /\ now = 0
    /\ lock = Unlocked
    /\ tasks = IdleTasks
    /\ rl = [pc |-> "run"]
    /\ net = [healthy |-> FALSE, msgs |-> 0]

\* the transport recovers, for good
NetHeal ==
    /\ ~net.healthy
    /\ net' = [net EXCEPT !.healthy = TRUE]
    /\ UNCHANGED <<app, now, lock, ws, tasks, rl, hist, disk>>

SleepingPcs == {"wait_sleep", "parse_sleep", "recv", "cooldown"}

\* the sleep the client is in runs out
SleepThrough ==
    /\ ws.pc \in SleepingPcs
    /\ now < ws.wake
    /\ IF ws.wake <= MaxNowLive
       THEN now' = ws.wake /\ ws' = ws
       ELSE now' = now /\ ws' = [ws EXCEPT !.wake = now]
    /\ UNCHANGED <<app, lock, tasks, rl, net, hist, disk>>

\* the client's own steps, which the runtime schedules
WsStep ==
    \/ WsLoopTop
    \/ WsParseErr
    \/ WsParseErrWake
    \/ WsAnnounce
    \/ WsConnectOk
    \/ WsSubscribe
    \/ WsIdleCheck
    \/ WsCleanup
    \/ WsCooldownDone

NextWsLive ==
    \/ WsLoopTop
    \/ WsParseErr
    \/ WsParseErrWake
    \/ WsAnnounce
    \/ WsConnectOk
    \/ WsConnectFail /\ now < HealBy
    \/ WsSubscribe
    \/ WsRecvErr /\ now < HealBy
    \/ WsRecvClosed /\ now < HealBy
    \/ WsIdleCheck
    \/ WsCleanup
    \/ WsCooldownDone
    \/ NetHeal
    \/ SleepThrough

SpecWsLive ==
    InitWsLive /\ [][NextWsLive]_vars /\ WF_vars(WsStep) /\ WF_vars(SleepThrough)

CredentialsKnown == IsSome(app.token) /\ IsSome(app.guild_id)

-----------------------------------------------------------------------------
(* SpecStale: queue fetches in flight while the user saves another host    *)
(* from the settings view                                                  *)

MaxNowStale == 1000

StaleResponses == {RespOk(Some(NowPlaying)), RespOk(None), RespErr("timeout")}

InitStale ==
    /\ app = StartApp(Some("tok"), DefaultHost)
    /\ now = 0
    /\ lock = Unlocked
    /\ ws = WsInit(0)
    /\ tasks = StartTasks
    /\ rl = [pc |-> "run"]
    /\ net = [healthy |-> FALSE, msgs |-> 0]
    /\ disk = DiskInit
    /\ hist = HistInit

AdvanceStale ==
    /\ now + 1000 <= MaxNowStale
    /\ Advance(1000)

NextStale ==
    \/ SaveSettings
    \/ RenderTick
    \/ Running /\ PollTick
    \/ AdvanceStale
    \/ \E i \in TaskIds : Running /\ FetchStart(i)
    \/ \E i \in TaskIds, r \in StaleResponses : Running /\ FetchSent(i, r)
    \/ \E i \in TaskIds : Running /\ FetchLock(i)
    \/ \E i \in TaskIds : Running /\ FetchBody(i)

SpecStale == InitStale /\ [][NextStale]_vars

\* the request of task i was built from the base_url and token of now
SnapshotCurrent(i) ==
    /\ tasks[i].url = BuildUrl(app.base_url, "/webhook/audio")
    /\ tasks[i].token = app.token

\* C11: a fetch whose request was built from a base_url or token that has
\* changed since does not overwrite current_track, queue or guild_id.
C11_NoStaleCommit ==
    [][\A i \in TaskIds :
        (FetchBody(i) /\ ~SnapshotCurrent(i)) => QView(app') = QView(app)]_vars

-----------------------------------------------------------------------------
(* SpecPoll: the poll task under fair scheduling, in each connection       *)
(* status.  The clock moves to the poll task's next tick and saturates at  *)
(* MaxNowPoll: ticks due later still come, without moving it.              *)

MaxNowPoll == 40000

\* the App once the stream client has announced an attempt at instant t
ConnectingApp(a, t) ==
    [AppLog(a, t, <<"WS Connecting to ">> \o WsUrl(a.base_url, Unwrap(a.token)))
       EXCEPT !.ws_connected = FALSE, !.ws_connecting = TRUE]

ConnectingWs(a, t) ==
    [WsInit(t) EXCEPT !.pc = "connecting", !.base_url = a.base_url,
                      !.token = a.token, !.guild_id = a.guild_id]

PollResponses == {RespOk(Some(NowPlaying)), RespFatal, RespErr("timeout")}

InitPoll ==
    /\ LET a == BaseApp(Some("tok"), Some("g1"))
       IN  \/ app = a /\ ws = WsInit(0) /\ hist = HistInit
           \/ /\ app = ConnectingApp(a, 0)
              /\ ws = ConnectingWs(a, 0)
              /\ hist = [HistInit EXCEPT !.attempt = Some(0)]
           \/ /\ app = ConnectedApp(a, 0)
              /\ ws = ConnectedWs(a, 0)
              /\ hist = ConnectedHist(a, 0)
    /\ now = 0
    /\ lock = Unlocked
    /\ tasks = IdleTasks
    /\ rl = [pc |-> "run"]
    /\ net = [healthy |-> FALSE, msgs |-> 0]
    /\ disk = DiskInit

\* the clock reaches the poll task's next tick
PollSleepThrough ==
    /\ tasks[0].pc = "poll_wait"
    /\ now < tasks[0].wake
    /\ IF tasks[0].wake <= MaxNowPoll
       THEN now' = tasks[0].wake /\ tasks' = tasks
       ELSE now' = now /\ tasks' = [tasks EXCEPT ![0].wake = now]
    /\ UNCHANGED <<app, lock, ws, rl, net, hist, disk>>

\* the poll task's own steps, which the runtime schedules; a request in
\* flight ends, by a response or by the client's timeout
PollStep ==
    \/ PollTick
    \/ FetchStart(0)
    \/ \E r \in PollResponses : FetchSent(0, r)
    \/ FetchLock(0)
    \/ FetchBody(0)
    \/ FetchText(0)

NextPoll ==
    \/ Running /\ PollTick
    \/ Running /\ FetchStart(0)
    \/ \E r \in PollResponses : Running /\ FetchSent(0, r)
    \/ Running /\ FetchLock(0)
    \/ Running /\ FetchBody(0)
    \/ Running /\ FetchText(0)
    \/ RenderTick
    \/ PollSleepThrough

SpecPoll ==
    InitPoll /\ [][NextPoll]_vars /\ WF_vars(PollStep) /\ WF_vars(PollSleepThrough)

\* C12: the poll task has a queue fetch request in flight again and again,
\* forever, in every connection status and after every outcome of the
\* earlier fetches.
C12_PollsForever == []<>(tasks[0].pc = "fq_send")

\* the request of the third tick is in flight while the stream is
\* connected and a fatal error is displayed
C12_Witness ==
    /\ tasks[0].pc = "fq_send"
    /\ tasks[0].wake = 3 * PollPeriodMs
    /\ app.ws_connected
    /\ IsSome(app.fatal_error)

-----------------------------------------------------------------------------
(* SpecCmd: commands dispatched from the main view (skip) and from the     *)
(* query line (play), their requests, delays and refreshes                 *)

MaxNowCmd == 500

CmdKeys == {CharKey("s"), Key("Enter")}

RefreshResponses == {RespOk(Some(NowPlaying)), RespErr("timeout")}

InitCmd ==
    /\ app = BaseApp(Some("tok"), Some("g1"))
    /\ now = 0
    /\ lock = Unlocked
    /\ ws = WsInit(0)
    /\ tasks = [IdleTasks EXCEPT ![0].wake = PollPeriodMs]
    /\ rl = [pc |-> "run"]
    /\ net = [healthy |-> FALSE, msgs |-> 0]
    /\ disk = DiskInit
    /\ hist = HistInit

AdvanceCmd ==
    /\ now + 100 <= MaxNowCmd
    /\ Advance(100)

NextCmd ==
    \/ \E k \in CmdKeys : KeyPress(k, "ok") /\ NoQueryText
    \/ AdvanceCmd
    \/ \E i \in TaskIds : Running /\ CmdStart(i)
    \/ \E i \in TaskIds, r \in CmdResponses : Running /\ CmdSent(i, r)
    \/ \E i \in TaskIds : Running /\ CmdDelayDone(i)
    \/ \E i \in TaskIds : Running /\ FetchStart(i)
    \/ \E i \in TaskIds, r \in RefreshResponses : Running /\ FetchSent(i, r)
    \/ \E i \in TaskIds : Running /\ FetchLock(i)
    \/ \E i \in TaskIds : Running /\ FetchBody(i)

SpecCmd == InitCmd /\ [][NextCmd]_vars

CmdKinds == {"simple", "play"}

\* the fixed delay between the command's request and its refresh
CmdDelay(kind) == IF kind = "play" THEN PlayDelayMs ELSE CmdDelayMs

\* the positions of a command's task, in the order of the function's text
CmdEdges ==
    {<<"cmd_start", "cmd_send">>, <<"cmd_send", "cmd_sleep">>,
     <<"cmd_sleep", "fq_start">>, <<"fq_start", "fq_send">>,
     <<"fq_send", "fq_lock">>, <<"fq_lock", "fq_body">>, <<"fq_lock", "fq_text">>,
     <<"fq_lock", "none">>, <<"fq_body", "none">>, <<"fq_text", "none">>}

\* C13: every step of a command's task moves it one position forward on the
\* line request - delay - refresh - return, so the command request and the
\* refresh request are each in flight once, whatever the responses; the
\* refresh starts only when the command request has completed and the fixed
\* delay counted from that completion has passed.
C13_OneRequestThenOneRefresh ==
    [][\A i \in TaskIds :
        (tasks[i].kind \in CmdKinds /\ tasks'[i] # tasks[i]) =>
            /\ <<tasks[i].pc, tasks'[i].pc>> \in CmdEdges
            /\ tasks'[i].pc = "cmd_sleep" =>
                   /\ IsSome(tasks'[i].cmd_result)
                   /\ tasks'[i].wake = now + CmdDelay(tasks[i].kind)
            /\ tasks'[i].pc = "fq_start" =>
                   /\ IsSome(tasks[i].cmd_result)
                   /\ now >= tasks[i].wake]_vars

\* the refresh of a play command whose request failed is in flight, half a
\* second after the failure
C13_Witness ==
    \E i \in TaskIds :
        /\ tasks[i].kind = "play"
        /\ tasks[i].pc = "fq_send"
        /\ tasks[i].cmd_result = Some("err")
        /\ now = PlayDelayMs

-----------------------------------------------------------------------------
(* SpecLogin: the login of the TUI, just started by Enter on the login     *)
(* screen or on the auth menu's Login item, and the login of the command   *)
(* line run next to it on the same auth file                               *)

MaxNowLogin == 121000

OldToken == <<"o">>

CallbackRequests ==
    {Callback(FALSE, None, None),
     Callback(TRUE, None, None),
     Callback(TRUE, Some(<<>>), None),
     Callback(TRUE, Some(<<" ">>), Some("u")),
     Callback(TRUE, Some(<<" ", "n">>), Some("u"))}

BindOutcomes == {"ok", "bind_err", "addr_err"}

SaveOutcomes == {"ok", "write_fail"}

LoginResponses == {RespOk(Some(NowPlaying)), RespErr("timeout")}

\* the command-line process: `jorik auth login` with the given host
CliProcess(host) ==
    [NewTask("cli", "cl_bind") EXCEPT !.url = BuildUrl(host, "/authorize")]

InitLogin ==
    /\ \E host \in {DefaultHost, BadHost} :
        /\ \/ /\ app = [BaseApp(None, None) EXCEPT !.base_url = host]
              /\ disk = DiskInit
           \/ /\ app = [BaseApp(Some(OldToken), Some("g1"))
                          EXCEPT !.base_url = host, !.view = "AuthMenu",
                                 !.menu_state = Some(12),
                                 !.auth_menu_state = Some(0)]
              /\ disk = [DiskInit EXCEPT !.auth = Some(SavedAuth(OldToken, Some("u")))]
        /\ tasks = [IdleTasks EXCEPT ![0].wake = PollPeriodMs,
                                     ![1] = NewTask("login", StartPc("login")),
                                     ![2] = CliProcess(host)]
    /\ now = 0
    /\ lock = Unlocked
    /\ ws = WsInit(0)
    /\ rl = [pc |-> "run"]
    /\ net = [healthy |-> FALSE, msgs |-> 0]
    /\ hist = HistInit

TimerPcs == {"al_accept", "al_settle", "cl_accept"}

\* the clock reaches a pending deadline
LoginClock ==
    /\ \E i \in TaskIds :
          /\ tasks[i].pc \in TimerPcs
          /\ now < tasks[i].wake
          /\ tasks[i].wake <= MaxNowLogin
          /\ now' = tasks[i].wake
    /\ UNCHANGED <<app, lock, ws, tasks, rl, net, hist, disk>>

NextLogin ==
    \/ LoginClock
    \/ \E i \in TaskIds : AuthLoginStart(i)
    \/ \E i \in TaskIds, o \in BindOutcomes : AuthLoginBind(i, o)
    \/ \E i \in TaskIds : AuthLoginOpen(i)
    \/ \E i \in TaskIds : AuthLoginAccept(i)
    \/ \E i \in TaskIds, req \in CallbackRequests : AuthLoginRead(i, req)
    \/ \E i \in TaskIds : AuthLoginReadErr(i)
    \/ \E i \in TaskIds : AuthLoginTimeout(i)
    \/ \E i \in TaskIds : AuthLoginAcceptErr(i)
    \/ \E i \in TaskIds, fs \in SaveOutcomes : AuthLoginRequest(i, fs)
    \/ \E i \in TaskIds : AuthLoginReport(i)
    \/ \E i \in TaskIds : AuthLoginCommit(i)
    \/ \E i \in TaskIds : AuthLoginSettled(i)
    \/ \E i \in TaskIds : FetchStart(i)
    \/ \E i \in TaskIds, r \in LoginResponses : FetchSent(i, r)
    \/ \E i \in TaskIds : FetchLock(i)
    \/ \E i \in TaskIds : FetchBody(i)
    \/ \E i \in TaskIds : AuthLoginView(i)
    \/ \E i \in TaskIds, o \in BindOutcomes : CliLoginBind(i, o)
    \/ \E i \in TaskIds : CliLoginAccept(i)
    \/ \E i \in TaskIds, req \in CallbackRequests : CliLoginRead(i, req)
    \/ \E i \in TaskIds : CliLoginReadErr(i)
    \/ \E i \in TaskIds : CliLoginTimeout(i)
    \/ \E i \in TaskIds : CliLoginAcceptErr(i)
    \/ \E i \in TaskIds, fs \in SaveOutcomes : CliLoginRequest(i, fs)

SpecLogin == InitLogin /\ [][NextLogin]_vars

\* the deadline of the accept has passed and the step of task i is not the
\* acceptance of a connection
TimedOut(i, pc) ==
    /\ tasks[i].pc = pc
    /\ now >= tasks[i].wake
    /\ tasks'[i] # tasks[i]
    /\ tasks'[i].pc \notin {"al_read", "cl_read"}

NoToken(req) == req.token = None \/ Trim(Unwrap(req.token)) = <<>>

\* C15: a callback request without a token is answered with status 400 and
\* ends the login in failure, the auth file and the session token
\* unchanged, in the TUI's login and in the command line's.
C15_NoTokenRejected ==
    [][\A i \in TaskIds :
        /\ (tasks[i].pc = "al_request" /\ NoToken(Unwrap(tasks[i].result))
              /\ tasks'[i] # tasks[i]) =>
              /\ IsSome(hist'.reply) /\ Unwrap(hist'.reply).status = 400
              /\ tasks'[i].pc \in {"al_no_token", "al_empty_token"}
              /\ disk' = disk
              /\ app'.token = app.token
        /\ (tasks[i].pc \in {"al_no_token", "al_empty_token"}
              /\ tasks'[i] # tasks[i]) =>
              /\ tasks'[i] = FreeTask
              /\ disk' = disk
              /\ app'.token = app.token
              /\ ~app'.is_loading
        /\ (tasks[i].pc = "cl_request" /\ NoToken(Unwrap(tasks[i].result))
              /\ tasks'[i] # tasks[i]) =>
              /\ IsSome(hist'.cli_reply) /\ Unwrap(hist'.cli_reply).status = 400
              /\ hist'.cli_exit = Some("err")
              /\ disk' = disk]_vars

-----------------------------------------------------------------------------
(* SpecQuit: everything that happens while run_loop runs - keys in every   *)
(* view, render ticks, terminal failures, fetch results with and without   *)
(* a fatal error, stream events - against the loop's return                *)

MaxNowQuit == 500

QuitViews == {"Main", "Menu", "Lyrics", "AuthMenu"}

QuitKeySet ==
    {CharKey("q"), CharKey("r"), Key("Enter"), Key("Esc")}

TerminalOps == {"draw", "poll", "read"}

\* index of "Exit TUI" in menu_items
ExitItem == 14

InitQuit ==
    /\ \/ /\ \E v \in QuitViews :
                app = [ConnectedApp(BaseApp(Some("tok"), Some("g1")), 0)
                         EXCEPT !.view = v, !.menu_state = Some(ExitItem)]
          /\ ws = ConnectedWs(BaseApp(Some("tok"), Some("g1")), 0)
          /\ hist = ConnectedHist(BaseApp(Some("tok"), Some("g1")), 0)
          /\ net = [healthy |-> FALSE, msgs |-> 1]
       \/ /\ app = BaseApp(None, None)
          /\ ws = WsInit(0)
          /\ hist = HistInit
          /\ net = [healthy |-> FALSE, msgs |-> 0]
    /\ now = 0
    /\ lock = Unlocked
    /\ tasks = StartTasks
    /\ rl = [pc |-> "run"]
    /\ disk = DiskInit

\* the user types at most one character on the query line
ShortQuery == Len(app'.input) <= 1

QuitPress(k) == KeyPress(k, "ok") /\ OneSpawned /\ ShortQuery

AdvanceQuit ==
    /\ now + 500 <= MaxNowQuit
    /\ Advance(500)

NextQuit ==
    \/ \E k \in QuitKeySet : QuitPress(k)
    \/ RenderTick
    \/ \E op \in TerminalOps : TerminalFault(op)
    \/ \E e \in FatalEvents : Running /\ WsRecvEvent(e) /\ OneSpawned
    \/ \E i \in TaskIds : Running /\ FetchStart(i)
    \/ \E i \in TaskIds, r \in FatalResponses : Running /\ FetchSent(i, r)
    \/ \E i \in TaskIds : Running /\ FetchLock(i)
    \/ \E i \in TaskIds : Running /\ FetchBody(i)
    \/ \E i \in TaskIds : Running /\ FetchText(i)
    \/ \E i \in TaskIds : Running /\ CmdStart(i)
    \/ \E i \in TaskIds, r \in CmdResponses : Running /\ CmdSent(i, r)
    \/ \E i \in TaskIds : Running /\ CmdDelayDone(i)
    \/ \E i \in TaskIds : Running /\ AuthLoginStart(i)
    \/ \E i \in TaskIds, o \in BindOutcomes : Running /\ AuthLoginBind(i, o)
    \/ AdvanceQuit

SpecQuit == InitQuit /\ [][NextQuit]_vars

\* the key is the quit key and the view is Main or LoginRequired, or the
\* key is Enter on the menu's "Exit TUI" item
QuitIntent(a, k) ==
    \/ IsQuit(k) /\ a.view \in {"Main", "LoginRequired"}
    \/ /\ k.code = "Enter"
       /\ a.view = "Menu"
       /\ IsSome(a.menu_state)
       /\ MenuItems[Unwrap(a.menu_state) + 1] = "Exit TUI"

LoopEnds == rl.pc = "run" /\ rl'.pc # "run"

\* C16 as stated: every step that ends run_loop is the press of a key with
\* a quit intent.
C16_ReturnsOnlyOnQuit ==
    [][LoopEnds => \E k \in QuitKeySet : QuitPress(k) /\ QuitIntent(app, k)]_vars

\* C16 with the terminal's failures: run_loop returns Ok only on the press
\* of a key with a quit intent, and returns otherwise only the Err of a
\* failed terminal draw, poll or read; no stream event, fetch result, error
\* state or other key press ends it.
C16_ReturnsOnQuitOrTerminalError ==
    [][LoopEnds =>
          \/ /\ rl'.pc = "returned"
             /\ \E k \in QuitKeySet : QuitPress(k) /\ QuitIntent(app, k)
          \/ /\ rl'.pc = "failed"
             /\ \E op \in TerminalOps : TerminalFault(op)]_vars

\* the loop has returned on the quit key from the main view, with a fetch
\* error stored, after the stream event was handled
C16_Witness ==
    /\ rl.pc = "returned"
    /\ app.view = "Main"
    /\ IsSome(app.error_message)
    /\ net.msgs = 0

-----------------------------------------------------------------------------
(* SpecIdle: render ticks of a session that is idle or playing, with and   *)
(* without a stored spectrogram, while state and spectrogram events arrive *)
(* hist.before is the bars when the current run of idle ticks began,       *)
(* hist.calls the number of idle ticks since.                              *)

MaxIdleTicks == 2

MaxNowIdle == 1000

\* bars as the smoother leaves them (fixed-point): flat, and rising by band
BarProfiles ==
    {[k \in 1..NBars |-> 0], [k \in 1..NBars |-> 2000], [k \in 1..NBars |-> 30 * k]}

IdleEvents ==
    {WsEvent("state_update", Some("g1"), None, Some(Playback(1000, 200000, TRUE, None))),
     WsEvent("state_update", Some("g1"), None, Some(Playback(1000, 200000, FALSE, None))),
     WsEvent("spectrogram_update", Some("g1"), Some(JArr(Some(<<Frame(90)>>))), None)}

\* update_realtime takes its else branch
Idle(a) == ~(IsSome(a.current_track) /\ ~a.paused)

InitIdle ==
    /\ \E ct \in {None, Some("T1 - A1")}, p \in BOOLEAN,
          sp \in {None, Some(<<Frame(200)>>)}, bars \in BarProfiles :
          /\ app = [ConnectedApp(BaseApp(Some("tok"), Some("g1")), 0)
                      EXCEPT !.current_track = ct, !.paused = p,
                             !.spectrogram = sp, !.smoothed_bars = bars]
          /\ hist = [ConnectedHist(BaseApp(Some("tok"), Some("g1")), 0)
                      EXCEPT !.before = Some(bars)]
    /\ now = 0
    /\ lock = Unlocked
    /\ ws = ConnectedWs(BaseApp(Some("tok"), Some("g1")), 0)
    /\ tasks = IdleTasks
    /\ rl = [pc |-> "run"]
    /\ net = [healthy |-> FALSE, msgs |-> MaxMsgs]
    /\ disk = DiskInit

\* tui.rs 955-959: a render tick, counted when it is an idle one
CountedTick ==
    /\ rl.pc = "run"
    /\ lock = Unlocked
    /\ Idle(app) => hist.calls < MaxIdleTicks
    /\ app' = UpdateRealtime(app, now)
    /\ hist' = IF Idle(app)
               THEN [hist EXCEPT !.calls = hist.calls + 1]
               ELSE [hist EXCEPT !.calls = 0, !.before = Some(app'.smoothed_bars)]
    /\ UNCHANGED <<now, lock, ws, tasks, rl, net, disk>>

AdvanceIdle ==
    /\ now + 1000 <= MaxNowIdle
    /\ Advance(1000)

NextIdle ==
    \/ CountedTick
    \/ \E e \in IdleEvents : WsRecvEvent(e)
    \/ AdvanceIdle

SpecIdle == InitIdle /\ [][NextIdle]_vars

RECURSIVE Pow(_, _)
Pow(b, n) == IF n = 0 THEN 1 ELSE b * Pow(b, n - 1)

\* C17: after N idle render ticks in a row each of the 64 bars is its value
\* at the start of the run times 0.95^N (to the resolution of the
\* fixed-point bars: each tick rounds down by less than one unit), whatever
\* spectrogram is stored.
C17_IdleDecay ==
    IsSome(hist.before) =>
        \A k \in 1..NBars :
            LET n    == hist.calls
                b    == app.smoothed_bars[k] * Pow(100, n)
                want == Unwrap(hist.before)[k] * Pow(95, n)
            IN  /\ b <= want
                /\ want - b <= n * Pow(100, n)
                /\ n = 0 => b = want

\* two idle ticks of a paused track with a stored spectrogram have taken
\* the flat bars from 2.000 to 1.805
C17_Witness ==
    /\ hist.calls = 2
    /\ IsSome(app.current_track)
    /\ app.paused
    /\ IsSome(app.spectrogram)
    /\ hist.before = Some([k \in 1..NBars |-> 2000])
    /\ app.smoothed_bars = [k \in 1..NBars |-> 1805]

-----------------------------------------------------------------------------
(* SpecFrame: render ticks of a playing session with a spectrogram of 100  *)
(* frames, at positions around the frame boundaries.  Frame j (0-based)    *)
(* holds the byte 100 + j in every band, so the bars tell which frame was  *)
(* read.  hist.before is the bars before the last tick.                    *)

MaxFrameTicks == 2

MaxNowFrame == 86

NFrames == 100

Frames == [j \in 1..NFrames |-> Frame(100 + (j - 1))]

ElapsedStarts == {0, 42, 43, 1237, 1279, 1280, 1322, 4223, 4266}

Offsets == {0, DefaultOffset, 0 - DefaultOffset}

InitFrame ==
    /\ \E el \in ElapsedStarts, off \in Offsets :
          app = [ConnectedApp(BaseApp(Some("tok"), Some("g1")), 0)
                   EXCEPT !.current_track = Some("T1 - A1"), !.paused = FALSE,
                          !.spectrogram = Some(Frames), !.elapsed_ms = el,
                          !.duration_ms = 200000, !.visualizer_offset = off,
                          !.offset_input = I64ToText(off)]
    /\ hist = ConnectedHist(BaseApp(Some("tok"), Some("g1")), 0)
    /\ now = 0
    /\ lock = Unlocked
    /\ ws = ConnectedWs(BaseApp(Some("tok"), Some("g1")), 0)
    /\ tasks = IdleTasks
    /\ rl = [pc |-> "run"]
    /\ net = [healthy |-> FALSE, msgs |-> 0]
    /\ disk = DiskInit

\* tui.rs 955-959: a render tick; the bars it found are remembered
FrameTick ==
    /\ rl.pc = "run"
    /\ lock = Unlocked
    /\ hist.calls < MaxFrameTicks
    /\ app' = UpdateRealtime(app, now)
    /\ hist' = [hist EXCEPT !.calls = hist.calls + 1,
                            !.before = Some(app.smoothed_bars)]
    /\ UNCHANGED <<now, lock, ws, tasks, rl, net, disk>>

AdvanceFrame ==
    /\ now + 43 <= MaxNowFrame
    /\ Advance(43)

NextFrame == FrameTick \/ AdvanceFrame

SpecFrame == InitFrame /\ [][NextFrame]_vars

\* a tick has just smoothed the bars at position 1280 ms with offset 0
TickedAt1280 ==
    /\ hist.calls > 0
    /\ app.last_state_update = now
    /\ app.elapsed_ms = 1280
    /\ app.visualizer_offset = 0

\* C18 as stated: at elapsed_ms = 1280 and offset 0 the frame index is 29
\* and the tick smooths the bars towards frame 29.
C18_Frame29 ==
    TickedAt1280 =>
        /\ FrameIndex(AdjustedMs(app.elapsed_ms, app.visualizer_offset)) = 29
        /\ app.smoothed_bars =
               SmoothBars(Unwrap(hist.before), Unwrap(app.spectrogram)[29 + 1])

\* C18 with the quotient computed: floor(1280 / 42.66) = 30, and the tick
\* smooths the bars towards frame 30.
C18_Frame30 ==
    TickedAt1280 =>
        /\ FrameIndex(AdjustedMs(app.elapsed_ms, app.visualizer_offset)) = 30
        /\ app.smoothed_bars =
               SmoothBars(Unwrap(hist.before), Unwrap(app.spectrogram)[30 + 1])

\* the first tick at 1280 ms has moved the zero bars towards frame 30,
\* whose byte is 130
C18_Witness ==
    /\ TickedAt1280
    /\ hist.calls = 1
    /\ hist.before = Some(ZeroBars)
    /\ app.smoothed_bars = SmoothBars(ZeroBars, Frame(130))
    /\ app.smoothed_bars # ZeroBars

-----------------------------------------------------------------------------
(* SpecCred: the stream client while the credentials of the session        *)
(* change: a login that brings the token, a signout that takes it away,    *)
(* and queue responses that bring or replace the guild id                  *)

MaxNowCred == 6000

NewToken == Callback(TRUE, Some(<<" ", "n">>), Some("u"))

GuildPayload(snake, camel) ==
    JObj(snake, camel, Some(Track(Some("T1"), Some("A1"))), None, None)

CredResponses ==
    {RespOk(Some(GuildPayload(Some("g1"), None))),
     RespOk(Some(GuildPayload(None, Some("g2")))),
     RespBad(None, None, TRUE, "guild_id is required")}

\* a session started without a token, on the login screen, whose user has
\* just pressed Enter; one started without a guild id; and one started with
\* both, whose user has just chosen Signout.  The first tick of the poll
\* task is due at once, and the stream client stopped logging its wait
\* before the observation starts.
InitCred ==
    /\ \/ /\ app = BaseApp(None, Some("g1"))
          /\ tasks = [IdleTasks EXCEPT ![1] = NewTask("login", StartPc("login"))]
          /\ disk = DiskInit
       \/ /\ app = BaseApp(Some(OldToken), None)
          /\ tasks = IdleTasks
          /\ disk = [DiskInit EXCEPT !.auth = Some(SavedAuth(OldToken, Some("u")))]
       \/ /\ app = [BaseApp(Some(OldToken), Some("g1"))
                      EXCEPT !.view = "AuthMenu", !.menu_state = Some(12),
                             !.auth_menu_state = Some(1)]
          /\ tasks = [IdleTasks EXCEPT ![1] = NewTask("signout", StartPc("signout"))]
          /\ disk = [DiskInit EXCEPT !.auth = Some(SavedAuth(OldToken, Some("u")))]
    /\ ws = WsInit(0 - WsWaitLogMs - 1)
    /\ now = 0
    /\ lock = Unlocked
    /\ rl = [pc |-> "run"]
    /\ net = [healthy |-> FALSE, msgs |-> 0]
    /\ hist = HistInit

\* the deadlines that are pending: the sleep of the stream client and the
\* settle delay of a login
CredDeadlines ==
    {ws.wake : x \in {y \in {0} : ws.pc \in SleepingPcs}}
        \cup {tasks[i].wake : i \in {j \in TaskIds : tasks[j].pc = "al_settle"}}

\* the clock reaches the earliest pending deadline
AdvanceCred ==
    /\ \E d \in CredDeadlines :
          /\ now < d
          /\ d <= MaxNowCred
          /\ \A e \in CredDeadlines : now < e => d <= e
          /\ now' = d
    /\ UNCHANGED <<app, lock, ws, tasks, rl, net, hist, disk>>

NextCred ==
    \/ WsLoopTop
    \/ WsWaitLog
    \/ WsWaitSleepDone
    \/ WsAnnounce
    \/ WsConnectOk
    \/ WsConnectFail
    \/ WsSubscribe
    \/ WsRecvErr
    \/ WsIdleCheck
    \/ WsCleanup
    \/ WsCooldownDone
    \/ PollTick
    \/ \E i \in TaskIds : FetchStart(i)
    \/ \E i \in TaskIds, r \in CredResponses : FetchSent(i, r)
    \/ \E i \in TaskIds : FetchLock(i)
    \/ \E i \in TaskIds : FetchBody(i)
    \/ \E i \in TaskIds : FetchText(i)
    \/ \E i \in TaskIds : AuthLoginStart(i)
    \/ \E i \in TaskIds : AuthLoginBind(i, "ok")
    \/ \E i \in TaskIds : AuthLoginOpen(i)
    \/ \E i \in TaskIds : AuthLoginAccept(i)
    \/ \E i \in TaskIds : AuthLoginRead(i, NewToken)
    \/ \E i \in TaskIds : AuthLoginRequest(i, "ok")
    \/ \E i \in TaskIds : AuthLoginCommit(i)
    \/ \E i \in TaskIds : AuthLoginSettled(i)
    \/ \E i \in TaskIds : AuthLoginView(i)
    \/ \E i \in TaskIds : SignoutStart(i)
    \/ \E i \in TaskIds : SignoutSent(i)
    \/ \E i \in TaskIds : SignoutFinish(i)
    \/ AdvanceCred

SpecCred == InitCred /\ [][NextCred]_vars

WaitPcs == {"wait_log", "wait_sleep"}

\* what the loop top does with what it reads from the session
ChecksCredentials ==
    (ws.pc = "top" /\ ws'.pc # "top") =>
        /\ ws'.token = app.token
        /\ ws'.guild_id = app.guild_id
        /\ (app.token = None \/ app.guild_id = None) =>
              (ws'.pc \in WaitPcs /\ app' = app)

\* the only way out of the wait is back to the loop top, and the wait
\* changes nothing of the session but its log
WaitOnlyRechecks ==
    (ws.pc \in WaitPcs /\ ws' # ws) =>
        /\ ws'.pc \in WaitPcs \cup {"top"}
        /\ [app' EXCEPT !.debug_logs = app.debug_logs] = app

C20_SubscribesCurrentGuild ==
    [][/\ WsConnectOk => ws'.pc = "subscribe"
       /\ (ws.pc = "subscribe" /\ ws' # ws) =>
             /\ WsSubscribe
             /\ Unwrap(hist'.subscribed) = app.guild_id]_vars

-----------------------------------------------------------------------------
(* SpecReconnect: a connected stream client whose user has just saved a    *)
(* new host (needs_reconnect is set) and whose task was spawned more than  *)
(* ten seconds ago, under fair scheduling, while the                       *)
(* server keeps sending.  net.period is the distance between two inbound   *)
(* messages (0: none), net.next the instant of the next one, net.kind what *)
(* the server sends.  Past MaxNowRe the clock stands still and the pending *)
(* deadlines move towards it instead, which keeps their order and          *)
(* distances.  When the sleep of the select! has run out and a message is  *)
(* ready too, select! picks either arm; the sleep arm is not passed over   *)
(* forever (strong fairness of WsIdleCheck).                               *)

MaxNowRe == 1000

ArrivalPeriods == {0, 250, 1500}

MessageKinds == {"ping", "event"}

OtherGuildEvent == WsEvent("spectrogram_update", Some("g9"), None, None)

InitReconnect ==
    /\ app = EditedApp(OtherHost)
    /\ ws = [ConnectedWs(BaseApp(Some("tok"), Some("g1")), 0)
               EXCEPT !.last_waiting_log = 0 - WsWaitLogMs - 1]
    /\ hist = ConnectedHist(BaseApp(Some("tok"), Some("g1")), 0)
    /\ disk = [DiskInit EXCEPT !.settings =
                  Some([base_url |-> OtherHost, visualizer_offset |-> DefaultOffset])]
    /\ now = 0
    /\ lock = Unlocked
    /\ tasks = IdleTasks
    /\ rl = [pc |-> "run"]
    /\ \E p \in ArrivalPeriods, k \in MessageKinds :
          net = [healthy |-> TRUE, msgs |-> 0, period |-> p, next |-> p, kind |-> k]

\* the server's next message reaches the client's socket
StreamDelivers ==
    /\ ws.pc \in {"subscribe", "recv"}
    /\ net.period > 0
    /\ now >= net.next
    /\ net.msgs < MaxMsgs
    /\ net' = [net EXCEPT !.msgs = net.msgs + 1, !.next = net.next + net.period]
    /\ UNCHANGED <<app, now, lock, ws, tasks, rl, hist, disk>>

\* the deadlines that are pending: the sleep the client is in and the next
\* message of the server
ReDeadlines ==
    {ws.wake : x \in {y \in {0} : ws.pc \in SleepingPcs /\ ws.wake > now}}
        \cup {net.next : x \in {y \in {0} : net.period > 0 /\ net.next > now}}

\* time passes until the earliest pending deadline; a message that is due
\* is delivered first
ReClock ==
    /\ ~ENABLED StreamDelivers
    /\ \E d \in ReDeadlines :
          /\ \A e \in ReDeadlines : d <= e
          /\ IF d <= MaxNowRe
             THEN now' = d /\ ws' = ws /\ net' = net
             ELSE /\ now' = now
                  /\ ws' = [ws EXCEPT
                              !.wake = IF @ > now THEN Max(now, @ - (d - now)) ELSE @,
                              !.last_waiting_log =
                                  Min(@, Max(now - WsWaitLogMs - 1, @ - (d - now)))]
                  /\ net' = [net EXCEPT
                               !.next = IF @ > now THEN @ - (d - now) ELSE @]
    /\ UNCHANGED <<app, lock, tasks, rl, hist, disk>>

\* the receive arm of the select!, with what the server sends
ReReceive ==
    \/ net.kind = "ping" /\ WsRecvOther
    \/ net.kind = "event" /\ WsRecvEvent(OtherGuildEvent)

\* the client's own steps, which the runtime schedules
ReStep ==
    \/ WsLoopTop
    \/ WsAnnounce
    \/ WsConnectOk
    \/ WsSubscribe
    \/ ReReceive
    \/ WsIdleCheck
    \/ WsCleanup
    \/ WsCooldownDone

NextReconnect ==
    \/ WsLoopTop
    \/ WsAnnounce
    \/ WsConnectOk
    \/ WsSubscribe
    \/ net.kind = "ping" /\ WsRecvOther
    \/ net.kind = "event" /\ WsRecvEvent(OtherGuildEvent)
    \/ WsIdleCheck
    \/ WsCleanup
    \/ WsCooldownDone
    \/ StreamDelivers
    \/ ReClock

SpecReconnect ==
    InitReconnect /\ [][NextReconnect]_vars
        /\ WF_vars(ReStep) /\ WF_vars(StreamDelivers) /\ WF_vars(ReClock)
        /\ SF_vars(WsIdleCheck)

\* C21: when needs_reconnect is set while the client is Connected, the
\* client eventually is no longer Connected and the flag is clear, whatever
\* the server sends and when.
C21_ReconnectHonoured ==
    (app.needs_reconnect /\ app.ws_connected)
        ~> (~app.ws_connected /\ ~app.needs_reconnect)

-----------------------------------------------------------------------------
(* The connection status shown by the session, and its edges, in SpecWs    *)

\* ws_connected and ws_connecting as the header renders them
Status(a) ==
    IF a.ws_connected THEN "Connected"
    ELSE IF a.ws_connecting THEN "Connecting" ELSE "Disconnected"

CycleEdges ==
    {<<"Disconnected", "Connecting">>, <<"Connecting", "Connected">>,
     <<"Connected", "Disconnected">>}

\* a handshake that fails takes the client from Connecting to Disconnected
FailureEdge == <<"Connecting", "Disconnected">>

\* the client task is at a position of its loop and has a step to take:
\* now, when the sleep it is in ends, or when the lock is released
WsCanStep ==
    /\ ws.pc \in {"top", "wait_log", "wait_sleep", "parse_err", "parse_sleep",
                  "announce", "connecting", "subscribe", "recv", "cleanup",
                  "cooldown"}
    /\ \/ ws.pc \in SleepingPcs /\ now < ws.wake
       \/ lock \notin {Unlocked, HeldByWs}
       \/ ENABLED (WsLoopTop \/ WsWaitLog \/ WsWaitSleepDone \/ WsParseErr
                     \/ WsParseErrWake \/ WsAnnounce \/ WsConnectOk
                     \/ WsSubscribe \/ WsIdleCheck \/ WsCleanup \/ WsCooldownDone)

\* C22 as stated: the status changes only along Disconnected to Connecting,
\* Connecting to Connected and Connected to Disconnected, and the client
\* task always has a step to take.
C22_ThreeEdges ==
    /\ []WsCanStep
    /\ [][Status(app') # Status(app) =>
             <<Status(app), Status(app')>> \in CycleEdges]_vars

\* C22 with the edge of the failed handshake: the status changes only along
\* the three edges of the cycle and Connecting to Disconnected, and the
\* client task always has a step to take.
C22_CycleOrFailedHandshake ==
    /\ []WsCanStep
    /\ [][Status(app') # Status(app) =>
             <<Status(app), Status(app')>> \in CycleEdges \cup {FailureEdge}]_vars

\* the client is Connected for the second time, after a session that ended
C22_Witness ==
    /\ Status(app) = "Connected"
    /\ ws.pc = "recv"
    /\ IsSome(hist.prev_attempt)
    /\ IsSome(hist.ended)
    /\ Unwrap(hist.attempt) > Unwrap(hist.ended)

-----------------------------------------------------------------------------
(* Inbound messages in SpecEvents                                          *)

\* the position of the client's task and the flags say Connected
StaysConnected ==
    /\ ws'.pc = "recv"
    /\ app'.ws_connected
    /\ ~app'.ws_connecting

KnownTypes ==
    {"spectrogram_update", "state_update", "initial_state", "queue_update",
     "track_start", "track_end", "player_update"}

\* C24: an event whose type is none of the known ones appends its
\* "WS Event" entry and a "WS Unhandled Event" entry to the debug log and
\* changes no other field of the session, whatever its guild; the client
\* stays Connected and no task is spawned.
C24_UnknownTypeOnlyLogs ==
    [][\A e \in Events :
        (WsRecvEvent(e) /\ e.event_type \notin KnownTypes) =>
            /\ [app' EXCEPT !.debug_logs = app.debug_logs] = app
            /\ app'.debug_logs =
                  Log(Log(app.debug_logs, now, "WS Event: " \o e.event_type),
                      now, "WS Unhandled Event: " \o e.event_type)
            /\ StaysConnected
            /\ tasks' = tasks]_vars

\* the connected client has just logged an event of unknown type, with a
\* track playing and every task slot free
C24_Witness ==
    /\ ws.pc = "recv"
    /\ app.ws_connected
    /\ IsSome(app.current_track)
    /\ tasks = IdleTasks
    /\ Len(app.debug_logs) > 4
    /\ app.debug_logs[Len(app.debug_logs)] =
           LogEntry(now, "WS Unhandled Event: volume_update")
    /\ app.debug_logs[Len(app.debug_logs) - 1] =
           LogEntry(now, "WS Event: volume_update")

\* the snapshot a state event carries: the top-level one, else the one
\* under data.playback
Snapshot(e) ==
    IF e.playback # None THEN e.playback
    ELSE IF e.data # None /\ Unwrap(e.data).tag = "obj"
         THEN Unwrap(e.data).playback ELSE None

PlaybackFields(a) == <<a.elapsed_ms, a.duration_ms, a.paused, a.last_state_update>>

\* C25: a state_update or initial_state of the session's guild overwrites
\* elapsed_ms, duration_ms and paused with the values of its snapshot (the
\* top-level one, else the nested one) and sets the anchor to now; without
\* a snapshot it leaves the four fields alone.  A render tick then adds at
\* most the time since the anchor to elapsed_ms, and exactly that while
\* playing below the duration.
C25_SnapshotOverwrites ==
    [][/\ \A e \in Events :
            (/\ WsRecvEvent(e)
             /\ e.event_type \in {"state_update", "initial_state"}
             /\ e.guild_id = app.guild_id) =>
                IF Snapshot(e) # None
                THEN LET pb == Unwrap(Snapshot(e))
                     IN  PlaybackFields(app') =
                            <<pb.elapsed_ms, pb.duration_ms, pb.paused, now>>
                ELSE PlaybackFields(app') = PlaybackFields(app)
       /\ RenderTick =>
            /\ app'.elapsed_ms <= app.elapsed_ms + (now - app.last_state_update)
            /\ (/\ IsSome(app.current_track) /\ ~app.paused
                /\ app.elapsed_ms + (now - app.last_state_update) <= app.duration_ms) =>
                   app'.elapsed_ms = app.elapsed_ms + (now - app.last_state_update)]_vars

\* one second after the start the event with both snapshots has been
\* handled: the fields are those of the top-level one
C25_Witness ==
    /\ now = 1000
    /\ PlaybackFields(app) = <<1000, 200000, FALSE, 1000>>

-----------------------------------------------------------------------------
(* SpecNotify: a connected stream client receiving queue updates and       *)
(* notifications, and the fetches they spawn                               *)

NotifyEvents ==
    {WsEvent("queue_update", Some("g1"), Some(NowPlaying), None),
     WsEvent("queue_update", Some("g1"), None, None),
     WsEvent("track_start", Some("g1"), None, None),
     WsEvent("track_end", Some("g1"), None, None),
     WsEvent("player_update", Some("g1"), Some(NowPlaying), None),
     WsEvent("track_end", Some("g2"), None, None)}

InitNotify ==
    /\ app = ConnectedApp(BaseApp(Some("tok"), Some("g1")), 0)
    /\ ws = ConnectedWs(BaseApp(Some("tok"), Some("g1")), 0)
    /\ hist = ConnectedHist(BaseApp(Some("tok"), Some("g1")), 0)
    /\ now = 0
    /\ lock = Unlocked
    /\ tasks = IdleTasks
    /\ rl = [pc |-> "run"]
    /\ net = [healthy |-> FALSE, msgs |-> MaxMsgs + 1]
    /\ disk = DiskInit

NextNotify ==
    \/ \E e \in NotifyEvents : WsRecvEvent(e)
    \/ \E i \in 1..MaxTasks : FetchStart(i)
    \/ \E i \in 1..MaxTasks, r \in EventResponses : FetchSent(i, r)
    \/ \E i \in 1..MaxTasks : FetchLock(i)
    \/ \E i \in 1..MaxTasks : FetchBody(i)

SpecNotify == InitNotify /\ [][NextNotify]_vars

\* the slots that hold a task
Live(ts) == {i \in 1..MaxTasks : ts[i].kind # "free"}

\* exactly one task was spawned, a queue fetch about to start
OneFetchSpawned ==
    \E i \in 1..MaxTasks :
        /\ tasks[i].kind = "free"
        /\ tasks' = [tasks EXCEPT ![i] = NewTask("fetch", "fq_start")]

\* C26: a queue_update of the session's guild that carries data is applied
\* to the session by parse_queue_response and spawns no task; one without
\* data spawns exactly one queue fetch; a track_start, track_end or
\* player_update of the session's guild spawns exactly one queue fetch and
\* changes no field of the session other than the debug log.
C26_RefetchOrApply ==
    [][\A e \in NotifyEvents :
        (WsRecvEvent(e) /\ e.guild_id = app.guild_id) =>
            /\ (e.event_type = "queue_update" /\ e.data # None) =>
                  /\ tasks' = tasks
                  /\ app' = ParseQueueResponse(
                               AppLog(AppLog(app, now, "WS Event: queue_update"),
                                      now, "Received Queue Update"),
                               now, Unwrap(e.data))
            /\ (e.event_type = "queue_update" /\ e.data = None) =>
                  /\ OneFetchSpawned
                  /\ [app' EXCEPT !.debug_logs = app.debug_logs] = app
            /\ e.event_type \in {"track_start", "track_end", "player_update"} =>
                  /\ OneFetchSpawned
                  /\ [app' EXCEPT !.debug_logs = app.debug_logs] = app]_vars

\* a queue_update with data has set the queue, and a player_update has
\* just spawned the second fetch while the first has not started
C26_Witness ==
    /\ app.current_track = Some("T1 - A1")
    /\ app.queue = <<"T2 - ">>
    /\ Cardinality(Live(tasks)) = 2
    /\ \A i \in Live(tasks) : tasks[i] = NewTask("fetch", "fq_start")
    /\ app.debug_logs[Len(app.debug_logs)] =
           LogEntry(now, "WS Event: player_update, refreshing queue")

-----------------------------------------------------------------------------
(* SpecPause: render ticks of a connected session that is paused or has    *)
(* no current track, and then resumes: by a state event, or by a queue     *)
(* update that brings a track.  hist.ticked is the instant of the last     *)
(* render tick.                                                            *)

MaxNowPause == 1500

PauseEvents ==
    {WsEvent("state_update", Some("g1"), None,
             Some(Playback(7000, 200000, FALSE, None))),
     WsEvent("state_update", Some("g1"), None,
             Some(Playback(7000, 200000, TRUE, None))),
     WsEvent("queue_update", Some("g1"), Some(NowPlaying), None)}

InitPause ==
    /\ \E track \in {None, Some("T1 - A1")} :
          app = [ConnectedApp(BaseApp(Some("tok"), Some("g1")), 0)
                   EXCEPT !.current_track = track, !.paused = IsSome(track),
                          !.elapsed_ms = 5000, !.duration_ms = 200000]
    /\ ws = ConnectedWs(BaseApp(Some("tok"), Some("g1")), 0)
    /\ hist = ConnectedHist(BaseApp(Some("tok"), Some("g1")), 0)
    /\ now = 0
    /\ lock = Unlocked
    /\ tasks = IdleTasks
    /\ rl = [pc |-> "run"]
    /\ net = [healthy |-> FALSE, msgs |-> MaxMsgs]
    /\ disk = DiskInit

\* tui.rs 955-959: a render tick; its instant is remembered
TimedTick ==
    /\ rl.pc = "run"
    /\ lock = Unlocked
    /\ hist.ticked # Some(now)
    /\ app' = UpdateRealtime(app, now)
    /\ hist' = [hist EXCEPT !.ticked = Some(now)]
    /\ UNCHANGED <<now, lock, ws, tasks, rl, net, disk>>

AdvancePause ==
    /\ now + 500 <= MaxNowPause
    /\ Advance(500)

NextPause ==
    \/ TimedTick
    \/ \E e \in PauseEvents : WsRecvEvent(e)
    \/ AdvancePause

SpecPause == InitPause /\ [][NextPause]_vars

\* C27: a render tick taken while paused or without a current track leaves
\* elapsed_ms unchanged and sets the anchor to now; and no render tick adds
\* more to elapsed_ms than the time since the previous render tick, so the
\* first tick after the playback resumes does not catch up on the pause.
C27_NoCatchUp ==
    [][TimedTick =>
          /\ (app.paused \/ app.current_track = None) =>
                (app'.elapsed_ms = app.elapsed_ms /\ app'.last_state_update = now)
          /\ IsSome(hist.ticked) =>
                app'.elapsed_ms <= app.elapsed_ms + (now - Unwrap(hist.ticked))
          /\ app'.elapsed_ms <= app.elapsed_ms + (now - app.last_state_update)]_vars

\* the session had no track at the tick of instant 500; the queue update
\* brought one, and the tick of instant 1500 has added the 1000 ms since
\* the previous tick and not the 1500 ms since the start
C27_Witness ==
    /\ now = 1500
    /\ hist.ticked = Some(1500)
    /\ app.current_track = Some("T1 - A1")
    /\ ~app.paused
    /\ app.elapsed_ms = 6000
    /\ app.duration_ms = 200000

\* floor((elapsed_ms + offset_ms) / 42.66) on the signed sum
SignedFrameIndex(a) == ((a.elapsed_ms + a.visualizer_offset) * 100) \div 4266

\* C28: a playing tick of SpecFrame smooths the bars towards the frame of
\* index floor((elapsed_ms + offset_ms) / 42.66), computed on the signed
\* sum of the position it has just extrapolated and the offset; when that
\* index is below 0 or not below the number of frames the bars are left as
\* they were.
C28_FrameBySignedSum ==
    [][FrameTick =>
          LET idx == SignedFrameIndex(app')
              spec == Unwrap(app.spectrogram)
          IN  IF idx >= 0 /\ idx < Len(spec)
              THEN app'.smoothed_bars = SmoothBars(app.smoothed_bars, spec[idx + 1])
              ELSE app'.smoothed_bars = app.smoothed_bars]_vars

\* the positions at which a spawned task or the poll task is suspended on
\* a fixed delay
TaskSleepPcs == {"cmd_sleep", "al_settle", "poll_wait"}

\* C29: no task is suspended on a fixed delay while it holds the App lock:
\* not the stream client in any of its sleeps, nor a dispatcher, the login
\* or the poll task.
C29_NoSleepUnderLock ==
    /\ ws.pc \in SleepingPcs => lock # HeldByWs
    /\ \A i \in TaskIds : tasks[i].pc \in TaskSleepPcs => lock # HeldBy(i)

-----------------------------------------------------------------------------
(* The lock in SpecFatal: render loop, key handler, stream client, poll    *)
(* task and spawned tasks                                                  *)

\* the positions at which a task keeps its guard across a suspension; the
\* step that follows releases the lock and acquires nothing
HoldingPcs == {"fq_body", "fq_text", "ly_body"}

\* the step with which the holder of the lock releases it
HolderReleases ==
    \/ \E i \in TaskIds : lock = HeldBy(i) /\ (FetchBody(i) \/ FetchText(i))
    \/ lock = HeldByWs /\ WsParseErrWake

\* C30: whoever holds the App lock is at a position from which it releases
\* the lock without requesting it again, and that step is enabled; every
\* other step that needs the lock finds it free or waits for that release.
\* The key handler and the stream client's event handler take and release
\* the lock within one step and leave it free.
C30_NoNestedLock ==
    /\ []((lock = HeldByWs) => ws.pc = "parse_sleep")
    /\ [](\A i \in TaskIds : lock = HeldBy(i) => tasks[i].pc \in HoldingPcs)
    /\ []((lock # Unlocked) => ENABLED HolderReleases)
    /\ [][\A e \in FatalEvents, k \in FatalKeySet :
            (WsRecvEvent(e) \/ KeyPress(k, "ok")) =>
                (lock = Unlocked /\ lock' = Unlocked)]_vars

\* a spawned fetch reads the body of its response with the lock held while
\* the poll task waits for the lock with a response in hand and the stream
\* client has messages to handle
C30_Witness ==
    /\ \E i \in 1..MaxTasks : lock = HeldBy(i) /\ tasks[i].pc = "fq_body"
    /\ tasks[0].pc = "fq_lock"
    /\ ws.pc = "recv"
    /\ net.msgs > 0

-----------------------------------------------------------------------------
(* Keys under the fatal overlay (SpecFatal)                                *)

\* the tasks after exactly one queue fetch was spawned into a free slot
OneFetchAdded ==
    \E i \in 1..MaxTasks :
        /\ tasks[i].kind = "free"
        /\ tasks' = [tasks EXCEPT ![i] = NewTask("fetch", "fq_start")]

\* C31: while fatal_error is set, a key press other than the reload key
\* changes nothing (no command, no change of view or input, no task, no
\* write, no quit); the reload key clears fatal_error and error_message,
\* changes nothing else of the App and spawns exactly one queue fetch.
C31_FatalBlocksKeys ==
    [][\A k \in FatalKeySet :
          (IsSome(app.fatal_error) /\ KeyPress(k, "ok")) =>
              IF IsReload(k)
              THEN /\ app' = [app EXCEPT !.fatal_error = None,
                                         !.error_message = None]
                   /\ OneFetchAdded
                   /\ UNCHANGED <<rl, disk>>
              ELSE UNCHANGED <<app, tasks, rl, disk>>]_vars

\* the reload key was pressed under a fatal error: the error is cleared and
\* the fetch it spawned has not started yet
C31_Witness ==
    /\ IsSome(hist.fatal_at)
    /\ app.fatal_error = None
    /\ app.error_message = None
    /\ app.view = "Main"
    /\ \E i \in 1..MaxTasks : tasks[i] = NewTask("fetch", "fq_start")
    /\ tasks[0].pc = "poll_wait"

-----------------------------------------------------------------------------
(* SpecBars: the bars of a playing session under render ticks, the clock   *)
(* that moves the position from frame to frame, and stream events that     *)
(* pause, resume and replace the spectrogram.  The spectrogram holds       *)
(* frames of 64 bands, of fewer, of more, and of none, with bytes on both  *)
(* sides of the noise floors and of the cap.                               *)

MaxBarTicks == 3

MaxNowBars == 258

MaxBarMsgs == 2

EdgeBytes == <<0, 30, 31, 59, 60, 61, 100, 196, 197, 226, 227, 255>>

\* a frame of n bands whose band k (1-based) holds EdgeBytes shifted by sh
EdgeFrame(n, sh) == [k \in 1..n |-> EdgeBytes[((k + sh) % Len(EdgeBytes)) + 1]]

BarFrames ==
    <<Frame(255), Frame(0), EdgeFrame(3, 10), EdgeFrame(70, 0), EdgeFrame(64, 4),
      <<>>, EdgeFrame(64, 8)>>

BarEvents ==
    {WsEvent("state_update", Some("g1"), None, Some(Playback(0, 200000, TRUE, None))),
     WsEvent("state_update", Some("g1"), None, Some(Playback(129, 200000, FALSE, None))),
     WsEvent("spectrogram_update", Some("g1"), Some(JArr(Some(<<Frame(255)>>))), None)}

InitBars ==
    /\ app = [ConnectedApp(BaseApp(Some("tok"), Some("g1")), 0)
                EXCEPT !.current_track = Some("T1 - A1"), !.paused = FALSE,
                       !.spectrogram = Some(BarFrames), !.elapsed_ms = 0,
                       !.duration_ms = 200000, !.visualizer_offset = 0,
                       !.offset_input = I64ToText(0)]
    /\ hist = ConnectedHist(BaseApp(Some("tok"), Some("g1")), 0)
    /\ now = 0
    /\ lock = Unlocked
    /\ ws = ConnectedWs(BaseApp(Some("tok"), Some("g1")), 0)
    /\ tasks = IdleTasks
    /\ rl = [pc |-> "run"]
    /\ net = [healthy |-> FALSE, msgs |-> MaxBarMsgs]
    /\ disk = DiskInit

\* tui.rs 955-959: a render tick; the bars it found are remembered
BarTick ==
    /\ rl.pc = "run"
    /\ lock = Unlocked
    /\ hist.calls < MaxBarTicks
    /\ app' = UpdateRealtime(app, now)
    /\ hist' = [hist EXCEPT !.calls = hist.calls + 1,
                            !.before = Some(app.smoothed_bars)]
    /\ UNCHANGED <<now, lock, ws, tasks, rl, net, disk>>

AdvanceBars ==
    /\ now + 43 <= MaxNowBars
    /\ Advance(43)

NextBars ==
    \/ BarTick
    \/ AdvanceBars
    \/ \E e \in BarEvents : WsRecvEvent(e)

SpecBars == InitBars /\ [][NextBars]_vars

Playing(a) == IsSome(a.current_track) /\ ~a.paused

\* the frame that a tick ending with the App a has read, if any
TickIndex(a) == FrameIndex(AdjustedMs(a.elapsed_ms, a.visualizer_offset))

FrameInRange(a) == IsSome(a.spectrogram) /\ TickIndex(a) < Len(Unwrap(a.spectrogram))

TickFrame(a) == Unwrap(a.spectrogram)[TickIndex(a) + 1]

\* max(0, raw - floor) * gain, in thousandths, for the 0-based band i
RawTarget(i, byte) ==
    Max(0, byte - (IF i < 3 THEN 60 ELSE 30)) * (IF i = 0 THEN 100 ELSE 600)

CappedTarget(i, byte) == Min(100 * BarScale, RawTarget(i, byte))

\* new lies 40% (rising) or 15% (not rising) of the gap from old towards
\* tgt, and between the two
MovesToward(old, new, tgt) ==
    IF tgt > old
    THEN new - old = (40 * (tgt - old)) \div 100 /\ old <= new /\ new <= tgt
    ELSE old - new = (15 * (old - tgt)) \div 100 /\ tgt <= new /\ new <= old

PlayingTickInRange == BarTick /\ Playing(app) /\ FrameInRange(app')

\* C32 as stated: on a playing tick with an in-range frame every updated
\* bar moves 40% (rising) or 15% (not rising) of the gap towards
\* max(0, raw - floor) * gain.
C32_TowardRawTarget ==
    [][PlayingTickInRange =>
          \A k \in 1..Min(NBars, Len(TickFrame(app'))) :
              MovesToward(app.smoothed_bars[k], app'.smoothed_bars[k],
                          RawTarget(k - 1, TickFrame(app')[k]))]_vars

\* C32 with the target as the code computes it: on a playing tick with an
\* in-range frame every updated bar moves 40% (rising) or 15% (not rising)
\* of the gap towards min(100, max(0, raw - floor) * gain), and lies between
\* its old value and that target.
C32_TowardCappedTarget ==
    [][PlayingTickInRange =>
          \A k \in 1..Min(NBars, Len(TickFrame(app'))) :
              MovesToward(app.smoothed_bars[k], app'.smoothed_bars[k],
                          CappedTarget(k - 1, TickFrame(app')[k]))]_vars

\* a playing tick has just read a frame of 64 bands: one bar rose, one bar
\* fell, and one bar moved towards a target that the cap lowered to 100
C32_Witness ==
    /\ Playing(app) /\ FrameInRange(app) /\ app.last_state_update = now
    /\ IsSome(hist.before)
    /\ Len(TickFrame(app)) = NBars
    /\ app.smoothed_bars = SmoothBars(Unwrap(hist.before), TickFrame(app))
    /\ \E k \in 1..NBars : app.smoothed_bars[k] > Unwrap(hist.before)[k]
    /\ \E k \in 1..NBars : app.smoothed_bars[k] < Unwrap(hist.before)[k]
    /\ \E k \in 1..NBars :
          /\ RawTarget(k - 1, TickFrame(app)[k]) > 100 * BarScale
          /\ app.smoothed_bars[k] # Unwrap(hist.before)[k]

\* C33: smoothed_bars always has exactly 64 entries; a playing tick with an
\* in-range frame of len bands smooths band k towards the frame's band k
\* for the first min(64, len) bands and leaves every other bar as it was,
\* so it reads no band that the frame or the bars do not have.
C33_BarsKeepWidth ==
    /\ [](DOMAIN app.smoothed_bars = 1..NBars)
    /\ [][PlayingTickInRange =>
            \A k \in 1..NBars :
                app'.smoothed_bars[k] =
                    IF k \in DOMAIN TickFrame(app')
                    THEN SmoothBand(k - 1, TickFrame(app')[k], app.smoothed_bars[k])
                    ELSE app.smoothed_bars[k]]_vars

\* a playing tick has just read a frame of three bands with all bars
\* raised before: the first three bars changed, the others did not
C33_Witness ==
    /\ Playing(app) /\ FrameInRange(app) /\ app.last_state_update = now
    /\ IsSome(hist.before)
    /\ Len(TickFrame(app)) = 3
    /\ \A k \in 1..NBars : Unwrap(hist.before)[k] > 0
    /\ \A k \in 1..3 : app.smoothed_bars[k] # Unwrap(hist.before)[k]
    /\ \A k \in 4..NBars : app.smoothed_bars[k] = Unwrap(hist.before)[k]

\* C40: every entry of smoothed_bars is within [0, 100] in every reachable
\* state, whatever bytes the frames hold and however playing ticks, idle
\* ticks and stream events interleave.
C40_BarsInRange ==
    \A k \in DOMAIN app.smoothed_bars :
        0 <= app.smoothed_bars[k] /\ app.smoothed_bars[k] <= 100 * BarScale

\* three playing ticks in a row have raised a bar above 78 towards a target
\* that only the cap keeps at 100
C40_Witness ==
    /\ Playing(app) /\ FrameInRange(app) /\ app.last_state_update = now
    /\ hist.calls = 3
    /\ \E k \in 1..Min(NBars, Len(TickFrame(app))) :
          /\ RawTarget(k - 1, TickFrame(app)[k]) > 100 * BarScale
          /\ app.smoothed_bars[k] > 78 * BarScale

-----------------------------------------------------------------------------
(* The subscription against a guild id that changes (SpecCred)             *)

\* C34: whenever the stream client is in the receive loop of a Connected
\* session, the guild it subscribed with on that connection is the
\* session's current guild_id.
C34_SubscribedGuildIsCurrent ==
    (app.ws_connected /\ ws.pc = "recv") => hist.subscribed = Some(app.guild_id)

-----------------------------------------------------------------------------
(* SpecFail: queue fetches that fail in each way (transport error,         *)
(* non-success status with and without the fatal message, success status   *)
(* with a body that does not decode) or succeed, in a session that is      *)
(* playing, while stream events and render ticks go on                     *)

MaxNowFail == 1000

FailResponses ==
    {RespOk(Some(NowPlaying)), RespOk(None), RespFatal, RespErr("timeout"),
     RespBad(None, None, TRUE, "guild_id is required"),
     RespBad(None, None, FALSE, "busy")}

FailEvents ==
    {WsEvent("queue_update", Some("g1"), Some(NowPlaying), None),
     WsEvent("state_update", Some("g1"), None, Some(Playback(9000, 100000, TRUE, None)))}

PlayingApp ==
    [ConnectedApp(BaseApp(Some("tok"), Some("g1")), 0)
       EXCEPT !.current_track = Some("T0 - A0"), !.queue = <<"Q1 - A1">>,
              !.paused = FALSE, !.elapsed_ms = 5000, !.duration_ms = 200000]

InitFail ==
    /\ app = PlayingApp
    /\ now = 0
    /\ lock = Unlocked
    /\ ws = ConnectedWs(BaseApp(Some("tok"), Some("g1")), 0)
    /\ tasks = StartTasks
    /\ rl = [pc |-> "run"]
    /\ net = [healthy |-> FALSE, msgs |-> 1]
    /\ disk = DiskInit
    /\ hist = ConnectedHist(BaseApp(Some("tok"), Some("g1")), 0)

AdvanceFail ==
    /\ now + 1000 <= MaxNowFail
    /\ Advance(1000)

NextFail ==
    \/ RenderTick
    \/ PollTick
    \/ AdvanceFail
    \/ \E e \in FailEvents : WsRecvEvent(e)
    \/ \E i \in TaskIds : FetchStart(i)
    \/ \E i \in TaskIds, r \in FailResponses : FetchSent(i, r)
    \/ \E i \in TaskIds : FetchLock(i)
    \/ \E i \in TaskIds : FetchBody(i)
    \/ \E i \in TaskIds : FetchText(i)

SpecFail == InitFail /\ [][NextFail]_vars

\* the two Apps agree on every field outside fs
SameBut(a, b, fs) == \A f \in (DOMAIN a) \ fs : a[f] = b[f]

\* C35: a failed queue fetch changes nothing of the session but is_loading,
\* error_message and fatal_error.  The step that takes the lock clears
\* is_loading and, on a transport error, sets error_message; after a
\* non-success status the step that has read the body sets error_message
\* or fatal_error; after a success status with a body that does not decode
\* nothing more changes.
C35_FailedFetchKeepsSession ==
    [][\A i \in TaskIds :
          /\ FetchLock(i) =>
                /\ SameBut(app, app', {"is_loading", "error_message"})
                /\ ~app'.is_loading
                /\ IF Unwrap(tasks[i].result).kind = "err"
                   THEN IsSome(app'.error_message)
                   ELSE app'.error_message = app.error_message
          /\ FetchText(i) =>
                /\ SameBut(app, app', {"error_message", "fatal_error"})
                /\ ~app'.is_loading
                /\ IsSome(app'.error_message) \/ IsSome(app'.fatal_error)
          /\ (FetchBody(i) /\ Unwrap(tasks[i].result).json = None) =>
                (app' = app /\ ~app'.is_loading)]_vars

\* a fetch answered with a non-success status has ended: its message is
\* shown, and the track, the queue and the position that an event set
\* are still there
C35_Witness ==
    /\ app.error_message = Some("Error: " \o "busy")
    /\ ~app.is_loading
    /\ app.current_track = Some("T0 - A0")
    /\ app.queue = <<"Q1 - A1">>
    /\ app.elapsed_ms = 9000
    /\ \A i \in TaskIds : tasks[i].pc \notin {"fq_lock", "fq_body", "fq_text"}

-----------------------------------------------------------------------------
(* SpecAuth: the user on the auth screens (login screen, auth menu, auth   *)
(* result) pressing Enter, Esc and Down while the logins and signouts      *)
(* these keys spawn run; a session started without a token, and one        *)
(* started with a token whose user has opened the auth menu                *)

MaxNowAuth == 500

AuthKeySet == {Key("Enter"), Key("Esc"), Key("Down")}

AuthViews == {"LoginRequired", "AuthMenu", "AuthResult"}

InitAuth ==
    /\ \/ /\ app = BaseApp(None, None)
          /\ disk = DiskInit
       \/ /\ app = [BaseApp(Some(OldToken), Some("g1"))
                      EXCEPT !.view = "AuthMenu", !.menu_state = Some(12),
                             !.auth_menu_state = Some(0)]
          /\ disk = [DiskInit EXCEPT !.auth = Some(SavedAuth(OldToken, Some("u")))]
    /\ tasks = [IdleTasks EXCEPT ![0].wake = PollPeriodMs]
    /\ now = 0
    /\ lock = Unlocked
    /\ ws = WsInit(0)
    /\ rl = [pc |-> "run"]
    /\ net = [healthy |-> FALSE, msgs |-> 0]
    /\ hist = HistInit

\* the clock reaches the end of a login's settle delay
AuthClock ==
    /\ \E i \in TaskIds :
          /\ tasks[i].pc = "al_settle"
          /\ now < tasks[i].wake
          /\ tasks[i].wake <= MaxNowAuth
          /\ now' = tasks[i].wake
    /\ UNCHANGED <<app, lock, ws, tasks, rl, net, hist, disk>>

NextAuth ==
    \/ \E k \in AuthKeySet : app.view \in AuthViews /\ KeyPress(k, "ok")
    \/ AuthClock
    \/ \E i \in TaskIds : AuthLoginStart(i)
    \/ \E i \in TaskIds : AuthLoginBind(i, "ok")
    \/ \E i \in TaskIds : AuthLoginOpen(i)
    \/ \E i \in TaskIds : AuthLoginAccept(i)
    \/ \E i \in TaskIds : AuthLoginRead(i, NewToken)
    \/ \E i \in TaskIds : AuthLoginRequest(i, "ok")
    \/ \E i \in TaskIds : AuthLoginCommit(i)
    \/ \E i \in TaskIds : AuthLoginSettled(i)
    \/ \E i \in TaskIds : FetchStart(i)
    \/ \E i \in TaskIds, r \in LoginResponses : FetchSent(i, r)
    \/ \E i \in TaskIds : FetchLock(i)
    \/ \E i \in TaskIds : FetchBody(i)
    \/ \E i \in TaskIds : AuthLoginView(i)
    \/ \E i \in TaskIds : SignoutStart(i)
    \/ \E i \in TaskIds : SignoutSent(i)
    \/ \E i \in TaskIds : SignoutFinish(i)

SpecAuth == InitAuth /\ [][NextAuth]_vars

NoAuthTask == \A i \in TaskIds : tasks[i].kind \notin {"login", "signout"}

\* first half of C36: whenever token is None and no login or signout is in
\* flight, the view is LoginRequired or Settings.
C36_NoTokenNoMain ==
    (app.token = None /\ NoAuthTask) => app.view \in {"LoginRequired", "Settings"}

\* second half of C36: whenever the view is LoginRequired with no login or
\* signout in flight, token is None.
C36_LoginScreenNoToken ==
    (app.view = "LoginRequired" /\ NoAuthTask) => app.token = None

\* C36: under any interleaving of login, signout and key handling, whenever
\* token is None and no login or signout is in flight the view is
\* LoginRequired or Settings, and whenever the view is LoginRequired with
\* no such task in flight token is None.
C36_MainOnlyWithToken == C36_NoTokenNoMain /\ C36_LoginScreenNoToken

-----------------------------------------------------------------------------
(* The reconnect flag against the host of the connection (SpecWs)          *)

\* C37: whenever the stream client leaves the receive loop of a Connected
\* session because needs_reconnect is set, the base_url that the session
\* was established with differs from the session's current base_url.
C37_BreaksOnlyStale ==
    [][(WsIdleCheck /\ app.needs_reconnect) => ws.base_url # app.base_url]_vars

-----------------------------------------------------------------------------
(* The ends of the TUI's login (SpecLogin)                                 *)

\* equality of two message texts (a string, or the pieces of a format!)
SameText(a, b) == Len(a) = Len(b) /\ a = b

\* the two messages that async_auth_login shows while it is under way
\* (tui.rs 471 and 520)
ProgressMessage(a, text) ==
    \/ SameText(text, "Initializing login...")
    \/ SameText(text, <<"Opening browser...">> \o BuildUrl(a.base_url, "/authorize"))

LoginEnds(i) == tasks[i].kind = "login" /\ tasks'[i].kind # "login"

\* C38: every step with which the TUI's login task terminates leaves
\* is_loading false and auth_info_text holding a message that is not one of
\* the login's progress messages.
C38_LoginEndsSettled ==
    [][\A i \in TaskIds :
          LoginEnds(i) =>
              /\ ~app'.is_loading
              /\ IsSome(app'.auth_info_text)
              /\ ~ProgressMessage(app', Unwrap(app'.auth_info_text))]_vars

-----------------------------------------------------------------------------
(* The two connection flags (SpecWs)                                       *)

\* the positions of the stream client from the success of the handshake to
\* the clean-up block that follows the receive loop
SessionPcs == {"subscribe", "recv", "cleanup"}

\* C39: ws_connected and ws_connecting are never both true; ws_connected is
\* true only from the success of a handshake until the clean-up that ends
\* that connection's receive loop, it is set only by the success of the
\* handshake, and ws_connecting is true only while the handshake is under
\* way.
C39_FlagsFollowConnection ==
    /\ [](~(app.ws_connected /\ app.ws_connecting))
    /\ [](app.ws_connected => ws.pc \in SessionPcs)
    /\ [](app.ws_connecting => ws.pc = "connecting")
    /\ [][(~app.ws_connected /\ app'.ws_connected) => WsConnectOk]_vars
    /\ [][(ws.pc \in SessionPcs /\ ws'.pc \notin SessionPcs) =>
              (WsCleanup /\ ~app'.ws_connected)]_vars

\* the second connection of the session is in its receive loop: a first
\* one has ended, and the flags say Connected
C39_Witness ==
    /\ ws.pc = "recv"
    /\ app.ws_connected /\ ~app.ws_connecting
    /\ IsSome(hist.prev_attempt)
    /\ IsSome(hist.ended)

====
